---- MODULE Spec2Model ----
(***************************************************************************)
(* The spellbook sidecar (services/ml/spellbook_sidecar.py): one run of    *)
(* main() reads one JSON-RPC request line, dispatches it to a handler      *)
(* (embed, llm_answer, import, export) and writes one response line.       *)
(*                                                                         *)
(* Python values are modelled as follows.  A dictionary entry that may be  *)
(* missing or null is a record [k, v] with k in {"absent","null","str"};   *)
(* text is a TLA+ string; a raised exception is the pair (excType, excMsg) *)
(* and the control point "except" of main().                               *)
(*                                                                         *)
(* Spec is a run of main().  SpecExtract applies one extractor to one      *)
(* document and SpecRender one renderer to one input, over documents,      *)
(* spells and characters of many shapes (call holds the function and its   *)
(* arguments, ret what it returned).                                       *)
(***************************************************************************)
EXTENDS Integers, Sequences, FiniteSets, TLC

VARIABLES
    pc,             \* control point of main()
    extract_pdf_text, \* module global: TRUE iff pdfminer was importable
    Document,       \* module global: TRUE iff python-docx was importable
    converter,      \* environment: the external HTML-to-PDF converter
    request,        \* the parsed request line
    files,          \* handle_import: the list being iterated
    idx,            \* handle_import: position of the loop in files
    spells,         \* handle_import: records so far
    artifacts,      \* handle_import: artifacts so far
    conflicts,      \* handle_import: conflicts so far
    outdir,         \* the export directory: [exists, files]
    result,         \* what the handler returned
    excType,        \* the exception propagating to main(), "none" if none
    excMsg,         \* str(exc)
    response,       \* the response object main() built
    stdout,         \* the lines written by _write_response
    call,           \* a function applied on its own: its name and arguments
    ret             \* what that function returned

vars == <<pc, extract_pdf_text, Document, converter, request, files, idx,
          spells, artifacts, conflicts, outdir, result, excType, excMsg,
          response, stdout, call, ret>>

(***************************************************************************)
(* Bounds of the model.                                                    *)
(***************************************************************************)
MaxFiles == 3
MaxSpells == 2
MaxTexts == 1

(***************************************************************************)
(* Optional values.                                                        *)
(***************************************************************************)
Absent == [k |-> "absent", v |-> ""]
Null == [k |-> "null", v |-> ""]
Str(s) == [k |-> "str", v |-> s]

\* dict.get(key): a missing key reads as None.
Get(x) == IF x.k = "absent" THEN Null ELSE x

\* dict.get(key, default): only a missing key reads as the default.
GetDefault(x, d) == IF x.k = "absent" THEN Str(d) ELSE x

\* (value or default) for an optional string: None and "" are falsy.
OrElse(x, d) == IF x.k = "str" /\ x.v # "" THEN x.v ELSE d

\* bool(value) of an optional string
Truthy(x) == x.k = "str" /\ x.v # ""

\* str(value) as an f-string interpolates it.
PyStr(x) == IF x.k = "str" THEN x.v ELSE "None"

(***************************************************************************)
(* Text helpers.                                                           *)
(***************************************************************************)
Char(s, i) == SubSeq(s, i, i)

Upper == <<"A", "B", "C", "D", "E", "F", "G", "H", "I", "J", "K", "L", "M",
           "N", "O", "P", "Q", "R", "S", "T", "U", "V", "W", "X", "Y", "Z">>
LowerCase == <<"a", "b", "c", "d", "e", "f", "g", "h", "i", "j", "k", "l", "m",
           "n", "o", "p", "q", "r", "s", "t", "u", "v", "w", "x", "y", "z">>

LowerChar(c) ==
    IF \E i \in 1..26 : Upper[i] = c
    THEN LowerCase[CHOOSE i \in 1..26 : Upper[i] = c]
    ELSE c

RECURSIVE Lower(_)
\* str.lower()
Lower(s) == IF s = "" THEN "" ELSE LowerChar(Char(s, 1)) \o Lower(SubSeq(s, 2, Len(s)))

IsSpace(c) == c \in {" ", "\n", "\t", "\r"}

RECURSIVE LStrip(_)
LStrip(s) ==
    IF s # "" /\ IsSpace(Char(s, 1)) THEN LStrip(SubSeq(s, 2, Len(s))) ELSE s

RECURSIVE RStrip(_)
RStrip(s) ==
    IF s # "" /\ IsSpace(Char(s, Len(s))) THEN RStrip(SubSeq(s, 1, Len(s) - 1)) ELSE s

\* str.strip()
Strip(s) == LStrip(RStrip(s))

\* str.lstrip(".")
LStripDot(s) == IF s # "" /\ Char(s, 1) = "." THEN SubSeq(s, 2, Len(s)) ELSE s

StartsWith(s, p) == Len(s) >= Len(p) /\ SubSeq(s, 1, Len(p)) = p

RECURSIVE Join(_, _)
\* sep.join(lines)
Join(sep, lines) ==
    IF lines = <<>> THEN ""
    ELSE IF Len(lines) = 1 THEN lines[1]
    ELSE lines[1] \o sep \o Join(sep, Tail(lines))

(***************************************************************************)
(* Paths and the disk the import reads.                                    *)
(***************************************************************************)
\* str(Path(p)): pathlib drops a leading "./".
PathStr(p) == IF Len(p) > 2 /\ SubSeq(p, 1, 2) = "./" THEN SubSeq(p, 3, Len(p)) ELSE p

\* Position of the last "." of a file name, 0 if there is none.
LastDot(s) ==
    IF \E i \in 1..Len(s) : Char(s, i) = "."
    THEN CHOOSE i \in 1..Len(s) :
            Char(s, i) = "." /\ \A j \in (i + 1)..Len(s) : Char(s, j) # "."
    ELSE 0

\* Path.suffix: the last dot and what follows, unless the dot leads or ends the name.
Suffix(p) ==
    LET n == PathStr(p)
        d == LastDot(n)
    IN IF d > 1 /\ d < Len(n) THEN SubSeq(n, d, Len(n)) ELSE ""

\* What is on disk: regular files (well-formed or corrupt documents) and a
\* directory.  A path that is not listed does not exist.  text is the text
\* of a structured-text file or what the PDF library extracts, paragraphs
\* are what the DOCX library reads.
File(parse, hash, text, paragraphs) ==
    [kind |-> "file", parse |-> parse, hash |-> hash, text |-> text,
     paragraphs |-> paragraphs]

Disk == [p \in {"a.md", "C.Pdf", "d.docx", "x.pdf", "e.txt", "dir"} |->
            CASE p = "dir"    -> [File("ok", "", "", <<>>) EXCEPT !.kind = "dir"]
              [] p = "a.md"   -> File("ok", "h_a.md", "---\nname: Ward\nlevel: 2\n---\n", <<>>)
              [] p = "C.Pdf"  -> File("ok", "h_C.Pdf", "Fireball\nLevel: 3\nA ball of fire.", <<>>)
              [] p = "d.docx" -> File("ok", "h_d.docx", "", <<"Sleep", "lvl 1">>)
              [] p = "x.pdf"  -> File("corrupt", "h_x", "", <<>>)
              [] OTHER        -> File("ok", "h_" \o p, "", <<>>)]

\* The paths a request may name.
Paths == DOMAIN Disk \cup {"gone.md", "./a.md"}

\* Path.exists()
Exists(p) == PathStr(p) \in DOMAIN Disk

\* path.open("rb") succeeds on a regular file and raises on a directory.
Readable(p) == Exists(p) /\ Disk[PathStr(p)].kind = "file"

\* _compute_hash on a readable file.
ComputeHash(p) == Disk[PathStr(p)].hash

(***************************************************************************)
(* Text of documents: what _parse_front_matter and _spell_from_markdown    *)
(* do with the text of a structured-text file.                             *)
(***************************************************************************)
RECURSIVE Find(_, _, _)
\* str.find(pat, from): the first position at or after from where pat
\* occurs in s (positions count from 1), 0 if there is none.
Find(s, pat, from) ==
    IF from + Len(pat) - 1 > Len(s) THEN 0
    ELSE IF SubSeq(s, from, from + Len(pat) - 1) = pat THEN from
    ELSE Find(s, pat, from + 1)

\* text.split("---", 2): the parts around the first two delimiters.
SplitDelim(text) ==
    LET first == Find(text, "---", 1)
        second == IF first = 0 THEN 0 ELSE Find(text, "---", first + 3)
    IN IF first = 0 THEN <<text>>
       ELSE IF second = 0
       THEN <<SubSeq(text, 1, first - 1), SubSeq(text, first + 3, Len(text))>>
       ELSE <<SubSeq(text, 1, first - 1),
              SubSeq(text, first + 3, second - 1),
              SubSeq(text, second + 3, Len(text))>>

RECURSIVE SplitLinesFrom(_, _, _)
\* str.splitlines(): lines end at "\n", "\r" or "\r\n"; a final line break
\* opens no further line.  start is where the current line began.
SplitLinesFrom(s, start, i) ==
    IF i > Len(s)
    THEN IF start > Len(s) THEN <<>> ELSE <<SubSeq(s, start, Len(s))>>
    ELSE IF Char(s, i) = "\r" /\ i < Len(s) /\ Char(s, i + 1) = "\n"
    THEN <<SubSeq(s, start, i - 1)>> \o SplitLinesFrom(s, i + 2, i + 2)
    ELSE IF Char(s, i) \in {"\n", "\r"}
    THEN <<SubSeq(s, start, i - 1)>> \o SplitLinesFrom(s, i + 1, i + 1)
    ELSE SplitLinesFrom(s, start, i + 1)

SplitLines(s) == SplitLinesFrom(s, 1, 1)

\* One "key: value" line of the header: line.split(":", 1), both sides trimmed.
KeyValue(line) ==
    LET colon == Find(line, ":", 1)
    IN [key |-> Strip(SubSeq(line, 1, colon - 1)),
        value |-> Strip(SubSeq(line, colon + 1, Len(line)))]

RECURSIVE FrontLines(_)
\* The loop of _parse_front_matter: blank lines and lines without a colon
\* are skipped, the others give the entries in the order of the lines.
FrontLines(lines) ==
    IF lines = <<>> THEN <<>>
    ELSE IF Strip(Head(lines)) = "" \/ Find(Head(lines), ":", 1) = 0
    THEN FrontLines(Tail(lines))
    ELSE <<KeyValue(Head(lines))>> \o FrontLines(Tail(lines))

\* _parse_front_matter: the dictionary as the list of its assignments.
ParseFrontMatter(text) ==
    IF ~StartsWith(text, "---") THEN <<>>
    ELSE LET parts == SplitDelim(text)
         IN IF Len(parts) < 3 THEN <<>> ELSE FrontLines(SplitLines(parts[2]))

\* meta.get(key): the last assignment to the key wins, a missing key is None.
MetaGet(meta, key) ==
    LET at == {i \in 1..Len(meta) : meta[i].key = key}
    IN IF at = {} THEN Null
       ELSE Str(meta[CHOOSE i \in at : \A j \in at : j <= i].value)

\* Only the first of two optional strings is read.
EitherFirst(a, b) == a

\* (a or b) of two optional strings
Either(a, b) == IF Truthy(a) THEN a ELSE b

UpperChar(c) ==
    IF \E i \in 1..26 : LowerCase[i] = c
    THEN Upper[CHOOSE i \in 1..26 : LowerCase[i] = c]
    ELSE c

IsCased(c) == \E i \in 1..26 : Upper[i] = c \/ LowerCase[i] = c

RECURSIVE TitleFrom(_, _)
\* str.title(): a letter that follows a letter is lower-cased, any other
\* letter is upper-cased.
TitleFrom(s, afterLetter) ==
    IF s = "" THEN ""
    ELSE LET c == Char(s, 1)
         IN (IF afterLetter THEN LowerChar(c) ELSE UpperChar(c))
            \o TitleFrom(SubSeq(s, 2, Len(s)), IsCased(c))

RECURSIVE Replace(_, _, _)
\* str.replace(old, new) for a one-character old.
Replace(s, old, new) ==
    IF s = "" THEN ""
    ELSE (IF Char(s, 1) = old THEN new ELSE Char(s, 1))
         \o Replace(SubSeq(s, 2, Len(s)), old, new)

\* Path.stem: the file name without its suffix.
Stem(p) ==
    LET n == PathStr(p)
        d == LastDot(n)
    IN IF d > 1 /\ d < Len(n) THEN SubSeq(n, 1, d - 1) ELSE n

\* path.stem.replace("_", " ").title()
NameOfFile(p) == TitleFrom(Replace(Stem(p), "_", " "), FALSE)

IsDigit(c) == c \in {"0", "1", "2", "3", "4", "5", "6", "7", "8", "9"}

RECURSIVE Decimal(_, _)
\* The value of a run of decimal digits (underscores between digits are
\* skipped, as int() does), continuing from acc.
Decimal(s, acc) ==
    IF s = "" THEN acc
    ELSE IF Char(s, 1) = "_" THEN Decimal(SubSeq(s, 2, Len(s)), acc)
    ELSE Decimal(SubSeq(s, 2, Len(s)), 10 * acc + (CHOOSE n \in 0..9 : ToString(n) = Char(s, 1)))

\* The digits int() accepts after the sign: digits, single underscores
\* only between two digits.
IsDigitRun(s) ==
    /\ s # ""
    /\ \A i \in 1..Len(s) :
          \/ IsDigit(Char(s, i))
          \/ /\ Char(s, i) = "_"
             /\ 1 < i /\ i < Len(s)
             /\ IsDigit(Char(s, i - 1)) /\ IsDigit(Char(s, i + 1))

\* int(s) of a trimmed string: [ok, value]; ok is FALSE for ValueError.
IntOf(s) ==
    LET signed == s # "" /\ Char(s, 1) \in {"+", "-"}
        body == IF signed THEN SubSeq(s, 2, Len(s)) ELSE s
    IN IF ~IsDigitRun(body) THEN [ok |-> FALSE, value |-> 0]
       ELSE [ok |-> TRUE,
             value |-> IF signed /\ Char(s, 1) = "-" THEN 0 - Decimal(body, 0)
                       ELSE Decimal(body, 0)]

(***************************************************************************)
(* The records of the extractors.  A confidence is written in tenths       *)
(* (10 is 1.0, 3 is 0.3); a field that may be None is an optional value.   *)
(***************************************************************************)
\* str(meta.get(key, "0")).lower() in {"1", "true", "yes"}
Marked(meta, key) ==
    LET value == IF \E i \in 1..Len(meta) : meta[i].key = key
                 THEN MetaGet(meta, key).v ELSE "0"
    IN Lower(value) \in {"1", "true", "yes"}

\* The level value compared as written.
LevelValRaw(meta) == Strip(OrElse(MetaGet(meta, "level"), "0"))

\* level_val = str(meta.get("level") or 0).lower().strip()
LevelVal(meta) == Strip(Lower(OrElse(MetaGet(meta, "level"), "0")))

\* Level rules that set the cantrip flag by the marker alone.
LevelOfMarked(meta) ==
    LET level_val == LevelVal(meta)
        parsed == IntOf(level_val)
    IN IF level_val = "cantrip" THEN [level |-> 0, is_quest |-> 0, is_cantrip |-> 1]
       ELSE IF level_val = "quest" THEN [level |-> 8, is_quest |-> 1, is_cantrip |-> 0]
       ELSE IF level_val = "8" /\ Truthy(MetaGet(meta, "sphere"))
       THEN [level |-> 8, is_quest |-> 1, is_cantrip |-> 0]
       ELSE IF ~parsed.ok THEN [level |-> 0, is_quest |-> 0, is_cantrip |-> 0]
       ELSE [level |-> parsed.value, is_quest |-> 0,
             is_cantrip |-> IF Marked(meta, "is_cantrip") THEN 1 ELSE 0]

\* The level rules of _spell_from_markdown: [level, is_quest, is_cantrip].
LevelOf(meta) ==
    LET level_val == LevelVal(meta)
        parsed == IntOf(level_val)
    IN IF level_val = "cantrip" THEN [level |-> 0, is_quest |-> 0, is_cantrip |-> 1]
       ELSE IF level_val = "quest" THEN [level |-> 8, is_quest |-> 1, is_cantrip |-> 0]
       ELSE IF level_val = "8" /\ Truthy(MetaGet(meta, "sphere"))
       THEN [level |-> 8, is_quest |-> 1, is_cantrip |-> 0]
       ELSE IF ~parsed.ok THEN [level |-> 0, is_quest |-> 0, is_cantrip |-> 0]
       ELSE [level |-> parsed.value, is_quest |-> 0,
             is_cantrip |-> IF parsed.value = 0 /\ Marked(meta, "is_cantrip")
                            THEN 1 ELSE 0]

\* A header field scored like a heuristic one.
ScoredHalf(x, fallback) == IF Truthy(x) THEN 5 ELSE fallback

\* 1.0 if the field is in the header, otherwise the fallback score.
Scored(x, fallback) == IF Truthy(x) THEN 10 ELSE fallback

\* The description trimmed in every case.
DescriptionTrimmed(text) ==
    LET parts == SplitDelim(text)
    IN IF StartsWith(text, "---") /\ Len(parts) = 3 THEN Strip(parts[3]) ELSE Strip(text)

\* description = parts[2].strip() behind a closed header, else the whole text.
DescriptionOf(text) ==
    LET parts == SplitDelim(text)
    IN IF StartsWith(text, "---") /\ Len(parts) = 3 THEN Strip(parts[3]) ELSE text

\* _spell_from_markdown on a file at path p holding text.
SpellOfMarkdown(p, text) ==
    LET meta == ParseFrontMatter(text)
        description == DescriptionOf(text)
        lvl == LevelOf(meta)
        classes == Either(MetaGet(meta, "class_list"), MetaGet(meta, "classes"))
    IN [name |-> OrElse(MetaGet(meta, "name"), NameOfFile(p)),
        school |-> MetaGet(meta, "school"),
        sphere |-> MetaGet(meta, "sphere"),
        class_list |-> classes,
        level |-> lvl.level,
        range |-> MetaGet(meta, "range"),
        components |-> MetaGet(meta, "components"),
        material_components |-> MetaGet(meta, "material_components"),
        casting_time |-> MetaGet(meta, "casting_time"),
        duration |-> MetaGet(meta, "duration"),
        area |-> MetaGet(meta, "area"),
        saving_throw |-> MetaGet(meta, "saving_throw"),
        reversible |-> IF Marked(meta, "reversible") THEN 1 ELSE 0,
        description |-> description,
        tags |-> MetaGet(meta, "tags"),
        source |-> MetaGet(meta, "source"),
        edition |-> MetaGet(meta, "edition"),
        author |-> MetaGet(meta, "author"),
        license |-> MetaGet(meta, "license"),
        is_quest_spell |-> lvl.is_quest,
        is_cantrip |-> lvl.is_cantrip,
        confidence |->
            [name |-> Scored(MetaGet(meta, "name"), 3),
             level |-> Scored(MetaGet(meta, "level"), 2),
             school |-> Scored(MetaGet(meta, "school"), 0),
             description |-> IF description # "" THEN 9 ELSE 1,
             source |-> Scored(MetaGet(meta, "source"), 0),
             sphere |-> Scored(MetaGet(meta, "sphere"), 0),
             class_list |-> Scored(classes, 0),
             range |-> Scored(MetaGet(meta, "range"), 0),
             components |-> Scored(MetaGet(meta, "components"), 0),
             duration |-> Scored(MetaGet(meta, "duration"), 0)],
        raw_text |-> text,
        source_file |-> PathStr(p)]

(***************************************************************************)
(* The extractors.  Each returns [raised, msg, spell]: the record, or the   *)
(* exception it raised.                                                    *)
(***************************************************************************)
NoSpell == [source_file |-> "", source |-> Null]

Returned(spell) == [raised |-> FALSE, msg |-> "", spell |-> spell]
Raised(msg) == [raised |-> TRUE, msg |-> msg, spell |-> NoSpell]

RECURSIVE SkipSeparators(_, _)
\* [:\s]* from position i: the first position that is no colon or space.
SkipSeparators(s, i) ==
    IF i <= Len(s) /\ (Char(s, i) = ":" \/ IsSpace(Char(s, i)))
    THEN SkipSeparators(s, i + 1)
    ELSE i

RECURSIVE SkipDigits(_, _)
\* \d* from position i: the first position that is no digit.
SkipDigits(s, i) ==
    IF i <= Len(s) /\ IsDigit(Char(s, i)) THEN SkipDigits(s, i + 1) ELSE i

\* Level or Lvl at position i in exactly this case.
KeywordAtExact(s, i) ==
    IF i + 4 <= Len(s) /\ SubSeq(s, i, i + 4) = "Level" THEN 5
    ELSE IF i + 2 <= Len(s) /\ SubSeq(s, i, i + 2) = "Lvl" THEN 3
    ELSE 0

\* (?:Level|Lvl) at position i, ignoring case: the length matched, 0 if none.
KeywordAt(s, i) ==
    IF i + 4 <= Len(s) /\ Lower(SubSeq(s, i, i + 4)) = "level" THEN 5
    ELSE IF i + 2 <= Len(s) /\ Lower(SubSeq(s, i, i + 2)) = "lvl" THEN 3
    ELSE 0

\* The pattern (?:Level|Lvl)[:\s]*(\d+) tried at position i: the digits of
\* group 1, "" if the pattern does not match there.
LevelAt(s, i) ==
    LET k == KeywordAt(s, i)
        d == SkipSeparators(s, i + k)
        e == SkipDigits(s, d)
    IN IF k = 0 THEN "" ELSE SubSeq(s, d, e - 1)

RECURSIVE LevelSearch(_, _)
\* re.search: the match at the leftmost position, [matched, digits].
LevelSearch(s, i) ==
    IF i > Len(s) THEN [matched |-> FALSE, digits |-> ""]
    ELSE IF LevelAt(s, i) # "" THEN [matched |-> TRUE, digits |-> LevelAt(s, i)]
    ELSE LevelSearch(s, i + 1)

\* The record _spell_from_pdf and _spell_from_docx build from the extracted
\* text; source is the literal each of them writes.
SpellOfText(p, text, source) ==
    LET level_match == LevelSearch(text, 1)
    IN [name |-> NameOfFile(p),
        level |-> IF level_match.matched THEN Decimal(level_match.digits, 0) ELSE 0,
        description |-> Strip(text),
        source |-> Str(source),
        confidence |->
            [name |-> 3,
             level |-> IF level_match.matched THEN 6 ELSE 1,
             description |-> IF Strip(text) # "" THEN 7 ELSE 1,
             source |-> 5,
             school |-> 0,
             sphere |-> 0,
             class_list |-> 0],
        raw_text |-> text,
        source_file |-> PathStr(p)]

\* _spell_from_pdf: text is what extract_pdf_text returns for the file.
SpellOfPdf(p, text, cap) ==
    IF ~cap THEN Raised("pdfminer.six not installed")
    ELSE Returned(SpellOfText(p, text, "PDF Import"))

\* _spell_from_docx: paragraphs are the texts of doc.paragraphs.
SpellOfDocx(p, paragraphs, cap) ==
    IF ~cap THEN Raised("python-docx not installed")
    ELSE Returned(SpellOfText(p, Join("\n\n", paragraphs), "DOCX Import"))

\* What each extractor makes of each file on disk (computed once).
Records ==
    [n \in DOMAIN Disk |->
        [md |-> SpellOfMarkdown(n, Disk[n].text),
         pdf |-> SpellOfPdf(n, Disk[n].text, TRUE),
         docx |-> SpellOfDocx(n, Disk[n].paragraphs, TRUE)]]

\* _spell_from_markdown: read_text(errors="ignore") of a file that was just
\* hashed.
SpellFromMarkdown(p) == Returned(Records[PathStr(p)].md)

\* _spell_from_pdf: extract_pdf_text raises on a corrupt file.
SpellFromPdf(p, cap) ==
    IF ~cap THEN SpellOfPdf(p, "", cap)
    ELSE IF Disk[PathStr(p)].parse = "corrupt" THEN Raised("No /Root object! - Is this really a PDF?")
    ELSE Records[PathStr(p)].pdf

\* _spell_from_docx: Document(path) raises on a corrupt file.
SpellFromDocx(p, cap) ==
    IF ~cap THEN SpellOfDocx(p, <<>>, cap)
    ELSE IF Disk[PathStr(p)].parse = "corrupt" THEN Raised("Package not found")
    ELSE Records[PathStr(p)].docx

\* path.suffix.lower() of every path a request may name (computed once).
LowerSuffix == [p \in Paths |-> Lower(Suffix(p))]

\* ext = path.suffix.lower()
Ext(p) == LowerSuffix[p]

SupportedExts == {".md", ".pdf", ".docx"}

\* The if/elif chain of handle_import on the lower-cased extension.
Extract(p, pdfcap, docxcap) ==
    CASE Ext(p) = ".md"   -> SpellFromMarkdown(p)
      [] Ext(p) = ".pdf"  -> SpellFromPdf(p, pdfcap)
      [] Ext(p) = ".docx" -> SpellFromDocx(p, docxcap)
      [] OTHER            -> Raised("")

Conflict(path, reason) == [path |-> path, reason |-> reason]

\* The artifact of a successful import (imported_at, the wall clock, is left out).
Artifact(p) == [type |-> LStripDot(Ext(p)), path |-> PathStr(p), hash |-> ComputeHash(p)]

(***************************************************************************)
(* Requests.                                                               *)
(***************************************************************************)
RECURSIVE SeqsUpTo(_, _)
\* The sequences over S of length at most n.
SeqsUpTo(S, n) ==
    IF n = 0 THEN {<<>>}
    ELSE LET shorter == SeqsUpTo(S, n - 1)
         IN shorter \cup {Append(q, x) : q \in {r \in shorter : Len(r) = n - 1}, x \in S}

Ids == {Absent, Str("7")}

\* Spell records as an export request supplies them.
SpellInputs ==
    {[name |-> Str("Fireball"), description |-> Str(" Explosion\nof fire. ")],
     [name |-> Absent, description |-> Absent],
     [name |-> Str("Ward"), description |-> Null]}

Formats == {Absent, Str("md"), Str("html"), Str("pdf"), Str("exe"), Str("PDF")}
Modes == {Absent, Str("single"), Str("spellbook"), Str("character_sheet"),
          Str("spellbook_pack")}
Layouts == {Absent, Str("full")}
Queries == {Absent, Str("what is a ward?")}
Citations == {Null, Str("PHB p.1")}

NoParams ==
    [files |-> <<>>, texts |-> 0, query |-> Absent, contexts |-> <<>>,
     spells |-> <<>>, format |-> Absent, mode |-> Absent, layout |-> Absent]

NoRequest == [kind |-> "none", id |-> Absent, method |-> Absent, params |-> NoParams]

Object(id, method, params) ==
    [kind |-> "object", id |-> id, method |-> method, params |-> params]

\* Import and export requests carry an id; the other requests come with and
\* without one.
ImportRequests ==
    {Object(Str("7"), Str("import"), [NoParams EXCEPT !.files = f]) :
        f \in SeqsUpTo(Paths, MaxFiles)}

ExportRequests ==
    {Object(Str("7"), Str("export"),
            [NoParams EXCEPT !.spells = s, !.format = f, !.mode = m, !.layout = l]) :
        s \in SeqsUpTo(SpellInputs, MaxSpells), f \in Formats,
        m \in Modes, l \in Layouts}

EmbedRequests ==
    {Object(i, Str("embed"), [NoParams EXCEPT !.texts = n]) :
        i \in Ids, n \in 0..MaxTexts}

LlmRequests ==
    {Object(i, Str("llm_answer"), [NoParams EXCEPT !.query = q, !.contexts = c]) :
        i \in Ids, q \in Queries, c \in SeqsUpTo(Citations, MaxTexts)}

OtherRequests ==
    {Object(i, m, NoParams) : i \in Ids, m \in {Absent, Str("delete")}}
    \cup {[NoRequest EXCEPT !.kind = "array"]}

\* The lines that parse as JSON.
Requests ==
    ImportRequests \cup ExportRequests \cup EmbedRequests \cup LlmRequests
    \cup OtherRequests

Handlers == {"embed", "llm_answer", "import", "export"}

(***************************************************************************)
(* State after start-up.                                                   *)
(***************************************************************************)
Unset == [unset |-> TRUE]

\* main() runs: no function is applied on its own.
NoCall == [fn |-> "main"]

Init ==
    /\ pc = "read"
    /\ extract_pdf_text \in BOOLEAN
    /\ Document \in BOOLEAN
    /\ converter \in {"absent", "failing", "ok"}
    /\ request = NoRequest
    /\ files = <<>>
    /\ idx = 0
    /\ spells = <<>>
    /\ artifacts = <<>>
    /\ conflicts = <<>>
    /\ outdir = [exists |-> FALSE, files |-> {}]
    /\ result = Unset
    /\ excType = "none"
    /\ excMsg = ""
    /\ response = Unset
    /\ stdout = <<>>
    /\ call = NoCall
    /\ ret = Unset

\* What a run of main() never changes.
env == <<extract_pdf_text, Document, converter, call, ret>>
importVars == <<files, idx, spells, artifacts, conflicts>>

\* raise excType(excMsg) out of a handler or out of main()'s try body.
Raise(type, msg) ==
    /\ excType' = type
    /\ excMsg' = msg
    /\ pc' = "except"

(***************************************************************************)
(* main(): reading and dispatching.                                        *)
(***************************************************************************)
\* _read_request: readline() returned "" (end of input).
ReadNoInput ==
    /\ pc = "read"
    /\ request' = [NoRequest EXCEPT !.kind = "eof"]
    /\ Raise("RuntimeError", "No input")
    /\ UNCHANGED <<env, importVars, outdir, result, response, stdout>>

\* str() of the JSONDecodeError of a blank line ("\n") and of the line "{bad".
JsonErrorMessage(kind) ==
    IF kind = "blank" THEN "Expecting value: line 2 column 1 (char 1)"
    ELSE "Expecting property name enclosed in double quotes: line 1 column 2 (char 1)"

\* _read_request: json.loads rejects a blank or malformed line.
ReadBadJson ==
    /\ pc = "read"
    /\ \E kind \in {"blank", "malformed"} :
          /\ request' = [NoRequest EXCEPT !.kind = kind]
          /\ Raise("JSONDecodeError", JsonErrorMessage(kind))
    /\ UNCHANGED <<env, importVars, outdir, result, response, stdout>>

\* _read_request: the line parses.
ReadRequest ==
    /\ pc = "read"
    /\ request' \in Requests
    /\ pc' = "dispatch"
    /\ UNCHANGED <<env, importVars, outdir, result, excType, excMsg, response, stdout>>

\* request.get on a JSON value that is no object.
DispatchNotObject ==
    /\ pc = "dispatch"
    /\ request.kind # "object"
    /\ Raise("AttributeError", "'list' object has no attribute 'get'")
    /\ UNCHANGED <<env, request, importVars, outdir, result, response, stdout>>

\* if method not in handlers: raise ValueError
DispatchUnknown ==
    /\ pc = "dispatch"
    /\ request.kind = "object"
    /\ PyStr(Get(request.method)) \notin Handlers
    /\ Raise("ValueError", "Unknown method: " \o PyStr(Get(request.method)))
    /\ UNCHANGED <<env, request, importVars, outdir, result, response, stdout>>

\* result = handlers[method](params): enter the handler.
DispatchHandler ==
    /\ pc = "dispatch"
    /\ request.kind = "object"
    /\ request.method.k = "str"
    /\ request.method.v \in Handlers
    /\ pc' = request.method.v
    /\ UNCHANGED <<env, request, importVars, outdir, result, excType, excMsg,
                   response, stdout>>

(***************************************************************************)
(* handle_embed and handle_llm_answer (stubs).                             *)
(***************************************************************************)
VectorSize == 384

\* _zero_vector: size zeros.
ZeroVector == [size |-> VectorSize, fill |-> 0]

HandleEmbed ==
    /\ pc = "embed"
    /\ result' = [vectors |-> [i \in 1..request.params.texts |-> ZeroVector]]
    /\ pc' = "return"
    /\ UNCHANGED <<env, request, importVars, outdir, excType, excMsg, response, stdout>>

HandleLlmAnswer ==
    /\ pc = "llm_answer"
    /\ result' = [answer |-> "(stub) Local-only answer for: "
                                \o OrElse(Get(request.params.query), ""),
                  citations |-> SelectSeq(request.params.contexts, Truthy),
                  meta |-> [model |-> "stub"]]
    /\ pc' = "return"
    /\ UNCHANGED <<env, request, importVars, outdir, excType, excMsg, response, stdout>>

(***************************************************************************)
(* handle_import: one action per way through the loop body.                *)
(***************************************************************************)
\* files = params.get("files") or []; the three lists start empty.
ImportBegin ==
    /\ pc = "import"
    /\ files' = request.params.files
    /\ idx' = 1
    /\ spells' = <<>>
    /\ artifacts' = <<>>
    /\ conflicts' = <<>>
    /\ pc' = "import_loop"
    /\ UNCHANGED <<env, request, outdir, result, excType, excMsg, response, stdout>>

InLoop == pc = "import_loop" /\ idx <= Len(files)

\* conflicts.append({"path": file_path, "reason": "missing"})
MissingConflict(file_path) == Conflict(file_path, "missing")

\* conflicts.append({"path": str(path), "reason": "unsupported_extension"})
UnsupportedConflict(file_path) == Conflict(PathStr(file_path), "unsupported_extension")

\* conflicts.append({"path": str(path), "reason": f"parsing_error: {str(e)}"})
ParsingConflict(file_path, msg) == Conflict(PathStr(file_path), "parsing_error: " \o msg)

\* A list that grows at the front.
AddFirst(list, x) == <<x>> \o list

\* list.append
AddLast(list, x) == Append(list, x)

\* A missing path that is skipped without a conflict.
ImportMissingSilent ==
    /\ InLoop
    /\ ~Exists(files[idx])
    /\ idx' = idx + 1
    /\ UNCHANGED <<pc, env, request, files, spells, artifacts, conflicts, outdir,
                   result, excType, excMsg, response, stdout>>

\* if not path.exists(): record the conflict and continue.
ImportMissing ==
    /\ InLoop
    /\ ~Exists(files[idx])
    /\ conflicts' = AddLast(conflicts, MissingConflict(files[idx]))
    /\ idx' = idx + 1
    /\ UNCHANGED <<pc, env, request, files, spells, artifacts, outdir, result,
                   excType, excMsg, response, stdout>>

\* file_hash = _compute_hash(path), outside the try: opening a directory raises
\* and the exception leaves handle_import.
ImportHashError ==
    /\ InLoop
    /\ Exists(files[idx])
    /\ ~Readable(files[idx])
    /\ Raise("IsADirectoryError",
             "[Errno 21] Is a directory: '" \o PathStr(files[idx]) \o "'")
    /\ UNCHANGED <<env, request, importVars, outdir, result, response, stdout>>

\* else: unsupported extension, conflict and continue.
ImportUnsupported ==
    /\ InLoop
    /\ Readable(files[idx])
    /\ Ext(files[idx]) \notin SupportedExts
    /\ conflicts' = AddLast(conflicts, UnsupportedConflict(files[idx]))
    /\ idx' = idx + 1
    /\ UNCHANGED <<pc, env, request, files, spells, artifacts, outdir, result,
                   excType, excMsg, response, stdout>>

\* except Exception as e: the extractor raised, conflict and continue.
ImportParsingError ==
    /\ InLoop
    /\ Readable(files[idx])
    /\ Ext(files[idx]) \in SupportedExts
    /\ LET r == Extract(files[idx], extract_pdf_text, Document)
       IN /\ r.raised
          /\ conflicts' = AddLast(conflicts, ParsingConflict(files[idx], r.msg))
    /\ idx' = idx + 1
    /\ UNCHANGED <<pc, env, request, files, spells, artifacts, outdir, result,
                   excType, excMsg, response, stdout>>

\* The extractor returned and the record is appended without its artifact.
ImportRecordAlone ==
    /\ InLoop
    /\ Readable(files[idx])
    /\ Ext(files[idx]) \in SupportedExts
    /\ LET r == Extract(files[idx], extract_pdf_text, Document)
       IN /\ ~r.raised
          /\ spells' = AddLast(spells, r.spell)
    /\ idx' = idx + 1
    /\ UNCHANGED <<pc, env, request, files, artifacts, conflicts, outdir, result,
                   excType, excMsg, response, stdout>>

\* The extractor returned: append the record and its artifact.
ImportRecord ==
    /\ InLoop
    /\ Readable(files[idx])
    /\ Ext(files[idx]) \in SupportedExts
    /\ LET r == Extract(files[idx], extract_pdf_text, Document)
       IN /\ ~r.raised
          /\ spells' = AddLast(spells, r.spell)
    /\ artifacts' = AddLast(artifacts, Artifact(files[idx]))
    /\ idx' = idx + 1
    /\ UNCHANGED <<pc, env, request, files, conflicts, outdir, result,
                   excType, excMsg, response, stdout>>

\* return {"spells": spells, "artifacts": artifacts, "conflicts": conflicts}
ImportReturn ==
    /\ pc = "import_loop"
    /\ idx > Len(files)
    /\ result' = [spells |-> spells, artifacts |-> artifacts, conflicts |-> conflicts]
    /\ pc' = "return"
    /\ UNCHANGED <<env, request, importVars, outdir, excType, excMsg, response, stdout>>

(***************************************************************************)
(* handle_export.                                                          *)
(***************************************************************************)
\* uuid.uuid4().hex
Uids == {"3f2a", "9c41"}

\* fmt = params.get("format") or "md", and the like.
Fmt(params) == OrElse(Get(params.format), "md")
Mode(params) == OrElse(Get(params.mode), "list")
Layout(params) == OrElse(Get(params.layout), "compact")

\* str(output_dir / f"spellbook_export_{unique_id}.{ext}")
ExportPath(uid, ext) == "out/spellbook_export_" \o uid \o "." \o ext

\* spell.get("description", "").strip() raises AttributeError on None.
DescriptionRaises(spell) == GetDefault(spell.description, "").k = "null"

RECURSIVE ListLines(_)
\* The lines of the default/list markdown: heading, blank, description, blank.
ListLines(ss) ==
    IF ss = <<>> THEN <<>>
    ELSE <<"# " \o PyStr(Get(Head(ss).name)),
           "",
           Strip(GetDefault(Head(ss).description, "").v),
           "">> \o ListLines(Tail(ss))

\* text = "\n".join(lines).strip() + "\n"
ListMarkdown(ss) == Strip(Join("\n", ListLines(ss))) \o "\n"

\* In a run of main() a document of the other renderers is named by the
\* renderer and the arguments that produced it; the text of the HTML
\* documents is given by PrintHtml, CharacterSheetHtml and SpellbookPackHtml.
RenderCharacterSheetMarkdown ==
    [renderer |-> "_render_character_sheet_markdown"]
RenderSpellbookPackMarkdown(ss) ==
    [renderer |-> "_render_spellbook_pack_markdown", spells |-> ss]
RenderPrintHtml(ss, mode, layout) ==
    [renderer |-> "_render_print_html", spells |-> ss, mode |-> mode, layout |-> layout]
RenderCharacterSheetHtml ==
    [renderer |-> "_render_character_sheet_html"]
RenderSpellbookPackHtml(ss, layout) ==
    [renderer |-> "_render_spellbook_pack_html", spells |-> ss, layout |-> layout]

\* The markdown branch of handle_export.
MarkdownDocument(params) ==
    CASE Mode(params) = "character_sheet" -> RenderCharacterSheetMarkdown
      [] Mode(params) = "spellbook_pack"  -> RenderSpellbookPackMarkdown(params.spells)
      [] OTHER -> [renderer |-> "list", text |-> ListMarkdown(params.spells)]

\* The pdf branch of handle_export renders HTML by mode.
PdfDocument(params) ==
    CASE Mode(params) = "character_sheet" -> RenderCharacterSheetHtml
      [] Mode(params) = "spellbook_pack"  ->
            RenderSpellbookPackHtml(params.spells, Layout(params))
      [] OTHER -> RenderPrintHtml(params.spells, Mode(params), Layout(params))

\* output_dir.mkdir(parents=True, exist_ok=True), then path.write_text(content).
WriteFile(dir, path, content) ==
    [exists |-> TRUE, files |-> dir.files \cup {[path |-> path, content |-> content]}]

\* output_dir.mkdir(parents=True, exist_ok=True) alone.
MakeDir(dir) == [dir EXCEPT !.exists = TRUE]

PdfNote == "Print-optimized HTML generated. Use browser 'Print to PDF' for PDF output."

\* The returned dictionaries.
MarkdownResult(path) == [path |-> path, format |-> "md"]
HtmlResult(path) == [path |-> path, format |-> "html"]
\* A pdf result that names the requested format.
PdfResultRequested(path) == [path |-> path, format |-> "pdf", note |-> PdfNote]
PdfResult(path) == [path |-> path, format |-> "html", note |-> PdfNote]

\* A message that does not name the failure as the callers expect.
UnknownFormatMessage(fmt) == "Unknown format: " \o fmt

\* raise ValueError(f"Unsupported export format: {fmt}")
UnsupportedFormatMessage(fmt) == "Unsupported export format: " \o fmt

MarkdownRaises(params) ==
    /\ Mode(params) \notin {"character_sheet", "spellbook_pack"}
    /\ \E i \in 1..Len(params.spells) : DescriptionRaises(params.spells[i])

\* if fmt == "md": render, write, return.
ExportMarkdown ==
    /\ pc = "export"
    /\ Fmt(request.params) = "md"
    /\ ~MarkdownRaises(request.params)
    /\ \E uid \in Uids :
          /\ outdir' = WriteFile(outdir, ExportPath(uid, "md"),
                                 MarkdownDocument(request.params))
          /\ result' = MarkdownResult(ExportPath(uid, "md"))
    /\ pc' = "return"
    /\ UNCHANGED <<env, request, importVars, excType, excMsg, response, stdout>>

\* if fmt == "md", list mode: .strip() of a null description raises after
\* the directory was made and before anything is written.
ExportMarkdownError ==
    /\ pc = "export"
    /\ Fmt(request.params) = "md"
    /\ MarkdownRaises(request.params)
    /\ outdir' = MakeDir(outdir)
    /\ Raise("AttributeError", "'NoneType' object has no attribute 'strip'")
    /\ UNCHANGED <<env, request, importVars, result, response, stdout>>

\* if fmt == "html"
ExportHtml ==
    /\ pc = "export"
    /\ Fmt(request.params) = "html"
    /\ \E uid \in Uids :
          /\ outdir' = WriteFile(outdir, ExportPath(uid, "html"),
                                 RenderPrintHtml(request.params.spells,
                                                 Mode(request.params),
                                                 Layout(request.params)))
          /\ result' = HtmlResult(ExportPath(uid, "html"))
    /\ pc' = "return"
    /\ UNCHANGED <<env, request, importVars, excType, excMsg, response, stdout>>

\* if fmt == "pdf": the HTML is written and returned; no converter is invoked.
ExportPdf ==
    /\ pc = "export"
    /\ Fmt(request.params) = "pdf"
    /\ \E uid \in Uids :
          /\ outdir' = WriteFile(outdir, ExportPath(uid, "html"),
                                 PdfDocument(request.params))
          /\ result' = PdfResult(ExportPath(uid, "html"))
    /\ pc' = "return"
    /\ UNCHANGED <<env, request, importVars, excType, excMsg, response, stdout>>

\* Any other format: ValueError, after the directory was made.
ExportUnsupported ==
    /\ pc = "export"
    /\ Fmt(request.params) \notin {"md", "html", "pdf"}
    /\ outdir' = MakeDir(outdir)
    /\ Raise("ValueError", UnsupportedFormatMessage(Fmt(request.params)))
    /\ UNCHANGED <<env, request, importVars, result, response, stdout>>

(***************************************************************************)
(* main(): building and writing the response.                              *)
(***************************************************************************)
\* {"jsonrpc": "2.0", "id": request.get("id"), "result": result}
ResultResponse(req, res) == [jsonrpc |-> "2.0", id |-> Get(req.id), result |-> res]

\* An error envelope that echoes the request's id.
ErrorResponseEcho(req, msg) ==
    [jsonrpc |-> "2.0", id |-> Get(req.id), error |-> [message |-> msg]]

\* {"jsonrpc": "2.0", "id": None, "error": {"message": str(exc)}}
ErrorResponse(req, msg) == [jsonrpc |-> "2.0", id |-> Null, error |-> [message |-> msg]]

MainResult ==
    /\ pc = "return"
    /\ response' = ResultResponse(request, result)
    /\ pc' = "write"
    /\ UNCHANGED <<env, request, importVars, outdir, result, excType, excMsg, stdout>>

\* except Exception as exc
MainExcept ==
    /\ pc = "except"
    /\ response' = ErrorResponse(request, excMsg)
    /\ pc' = "write"
    /\ UNCHANGED <<env, request, importVars, outdir, result, excType, excMsg, stdout>>

\* _write_response(response)
WriteResponse ==
    /\ pc = "write"
    /\ stdout' = Append(stdout, response)
    /\ pc' = "done"
    /\ UNCHANGED <<env, request, importVars, outdir, result, excType, excMsg, response>>

Next ==
    \/ ReadNoInput
    \/ ReadBadJson
    \/ ReadRequest
    \/ DispatchNotObject
    \/ DispatchUnknown
    \/ DispatchHandler
    \/ HandleEmbed
    \/ HandleLlmAnswer
    \/ ImportBegin
    \/ ImportMissing
    \/ ImportHashError
    \/ ImportUnsupported
    \/ ImportParsingError
    \/ ImportRecord
    \/ ImportReturn
    \/ ExportMarkdown
    \/ ExportMarkdownError
    \/ ExportHtml
    \/ ExportPdf
    \/ ExportUnsupported
    \/ MainResult
    \/ MainExcept
    \/ WriteResponse

Spec == Init /\ [][Next]_vars

(***************************************************************************)
(* The extractors applied on their own to documents of every shape.        *)
(***************************************************************************)
MaxLines == 2
MaxParagraphs == 2

\* Lines a header may hold.
HeaderLines ==
    {"name: Fireball", "name:", "Name: Ward", "title: Ward",
     "level: 3", "level: 0", "level: Cantrip", "level: quest", "level: 8",
     "level: -3", "level: 3rd", "Level: 2",
     "sphere: Healing", "is_cantrip: Yes",
     "class: Mage", "classes: Mage", "material components: ash", "school:"}

\* What may follow the header, or be the whole file.
Bodies == {"", "\n# Wall of Fog\n\nA mist <rises>.\n", "Plain text."}

\* A closed header block followed by the body.
WithHeader(lines, body) == "---\n" \o Join("\n", lines) \o "\n---\n" \o body

\* A document: its header ("closed", "open" when the closing delimiter is
\* missing, "none"), the header lines, the body, and the text of the file.
Doc(header, lines, body, text) ==
    [header |-> header, lines |-> lines, body |-> body, text |-> text]

MarkdownDocs ==
    {Doc("closed", h, b, WithHeader(h, b)) :
        h \in SeqsUpTo(HeaderLines, MaxLines), b \in Bodies}
    \cup {Doc("none", <<>>, b, b) : b \in Bodies}
    \cup {Doc("open", <<l>>, "", "---\n" \o l \o "\n") : l \in HeaderLines}
    \cup {Doc("closed", <<l, s, c>>, "", WithHeader(<<l, s, c>>, "")) :
            l \in {x \in HeaderLines : StartsWith(x, "level:")},
            s \in {"sphere: Healing", "sphere:"},
            c \in {"is_cantrip: Yes", "is_cantrip: TRUE", "is_cantrip: no"}}

\* Paragraphs of a binary document, as the extraction library returns them.
Paragraphs ==
    {"", " \n", "Fireball", "Level: 3", "lvl 12, later Level 4", "LEVEL :\n 07",
     "level three", "Level -2", "A 5th-level spell"}

MarkdownCalls ==
    {[fn |-> "_spell_from_markdown", path |-> "magic_missile.md", doc |-> d,
      paragraphs |-> <<>>] : d \in MarkdownDocs}

PdfCalls ==
    {[fn |-> "_spell_from_pdf", path |-> "C.Pdf", doc |-> Doc("none", <<>>, t, t),
      paragraphs |-> <<>>] : t \in Paragraphs}

DocxCalls ==
    {[fn |-> "_spell_from_docx", path |-> "d.docx", doc |-> Doc("none", <<>>, "", ""),
      paragraphs |-> ps] : ps \in SeqsUpTo(Paragraphs, MaxParagraphs)}

\* No run of main(): one extractor is about to be applied.  The structured-
\* text extractor reads neither capability.
InitExtract ==
    /\ pc = "call"
    /\ \/ call \in MarkdownCalls /\ extract_pdf_text = TRUE /\ Document = TRUE
       \/ call \in PdfCalls /\ extract_pdf_text \in BOOLEAN /\ Document = TRUE
       \/ call \in DocxCalls /\ extract_pdf_text = TRUE /\ Document \in BOOLEAN
    /\ ret = Unset
    /\ converter = "absent"
    /\ request = NoRequest
    /\ files = <<>>
    /\ idx = 0
    /\ spells = <<>>
    /\ artifacts = <<>>
    /\ conflicts = <<>>
    /\ outdir = [exists |-> FALSE, files |-> {}]
    /\ result = Unset
    /\ excType = "none"
    /\ excMsg = ""
    /\ response = Unset
    /\ stdout = <<>>

mainVars == <<request, importVars, outdir, result, excType, excMsg, response, stdout>>

CallSpellFromMarkdown ==
    /\ pc = "call"
    /\ call.fn = "_spell_from_markdown"
    /\ ret' = Returned(SpellOfMarkdown(call.path, call.doc.text))
    /\ pc' = "returned"
    /\ UNCHANGED <<extract_pdf_text, Document, converter, call, mainVars>>

CallSpellFromPdf ==
    /\ pc = "call"
    /\ call.fn = "_spell_from_pdf"
    /\ ret' = SpellOfPdf(call.path, call.doc.text, extract_pdf_text)
    /\ pc' = "returned"
    /\ UNCHANGED <<extract_pdf_text, Document, converter, call, mainVars>>

CallSpellFromDocx ==
    /\ pc = "call"
    /\ call.fn = "_spell_from_docx"
    /\ ret' = SpellOfDocx(call.path, call.paragraphs, Document)
    /\ pc' = "returned"
    /\ UNCHANGED <<extract_pdf_text, Document, converter, call, mainVars>>

NextExtract ==
    \/ CallSpellFromMarkdown
    \/ CallSpellFromPdf
    \/ CallSpellFromDocx

SpecExtract == InitExtract /\ [][NextExtract]_vars

(***************************************************************************)
(* The HTML renderers, as text.  A spell or character field is an optional *)
(* value; a number is written as its decimal text; prepared and known are  *)
(* None, true or false ([k |-> "bool", v |-> "true"]).                     *)
(***************************************************************************)
\* The character U+2022 of the templates, written in ASCII.
Bullet == "*"

RECURSIVE HtmlEscape(_)
\* html.escape(s, quote=True)
HtmlEscape(s) ==
    IF s = "" THEN ""
    ELSE LET c == Char(s, 1)
         IN (CASE c = "&" -> "&amp;"
               [] c = "<" -> "&lt;"
               [] c = ">" -> "&gt;"
               [] c = "\"" -> "&quot;"
               [] c = "'" -> "&#x27;"
               [] OTHER -> c) \o HtmlEscape(SubSeq(s, 2, Len(s)))

\* _render_spell_block
RenderSpellBlock(spell, layout, mode) ==
    LET NonEmpty(x) == x # ""
        name == HtmlEscape(OrElse(spell.name, "Untitled"))
        school_raw == OrElse(spell.school, "")
        level_raw == OrElse(spell.level, "")
        school == HtmlEscape(school_raw)
        level == HtmlEscape(level_raw)
        description ==
            Replace(HtmlEscape(OrElse(spell.description, "")), "\n", "<br/>")
        class_list ==
            HtmlEscape(OrElse(Either(spell.class_list, spell.classList), ""))
        range_text == HtmlEscape(OrElse(spell.range, ""))
        components == HtmlEscape(OrElse(spell.components, ""))
        duration == HtmlEscape(OrElse(spell.duration, ""))
        saving_throw ==
            HtmlEscape(OrElse(Either(spell.saving_throw, spell.savingThrow), ""))
        notes == HtmlEscape(OrElse(spell.notes, ""))
        status_bits ==
            IF mode # "spellbook" THEN <<>>
            ELSE (IF spell.prepared.k # "bool" THEN <<>>
                  ELSE IF spell.prepared.v = "true" THEN <<"Prepared">>
                  ELSE <<"Unprepared">>)
                 \o (IF spell.known.k # "bool" THEN <<>>
                     ELSE IF spell.known.v = "true" THEN <<"Known">>
                     ELSE <<"Unknown">>)
        status_html == Join(" " \o Bullet \o " ", status_bits)
        status_block ==
            IF status_html # "" THEN "<div class='meta'>" \o status_html \o "</div>"
            ELSE ""
        details == Join(" ", SelectSeq(<<school_raw, "Level " \o level_raw>>, NonEmpty))
        pill ==
            IF details # "" THEN "<span class='pill'>" \o HtmlEscape(details) \o "</span>"
            ELSE ""
        meta_line ==
            Join(" | ", SelectSeq(<<class_list, range_text, components, duration>>,
                                  NonEmpty))
        notes_block ==
            IF notes # ""
            THEN "<div class='notes'><strong>Notes:</strong> " \o notes \o "</div>"
            ELSE ""
    IN IF layout = "compact"
       THEN
       "\n" \o "<section class=\"spell\">\n" \o
       "  <div class=\"spell-header\">\n" \o "    <h2>" \o name \o "</h2>\n" \o
       "    " \o pill \o "\n" \o "  </div>\n" \o "  " \o status_block \o
       "\n" \o "  <div class=\"meta\">" \o HtmlEscape(meta_line) \o
       "</div>\n" \o "  <div>" \o description \o "</div>\n" \o "  " \o
       notes_block \o "\n" \o "</section>\n"
       ELSE
       "\n" \o "<section class=\"spell\">\n" \o
       "  <div class=\"spell-header\">\n" \o "    <h2>" \o name \o "</h2>\n" \o
       "    <span class=\"pill\">" \o school \o " " \o Bullet \o " Level " \o
       level \o "</span>\n" \o "  </div>\n" \o "  " \o status_block \o "\n" \o
       "  <table class=\"details-table\">\n" \o
       "    <tr><td>Classes</td><td>" \o class_list \o "</td></tr>\n" \o
       "    <tr><td>Range</td><td>" \o range_text \o "</td></tr>\n" \o
       "    <tr><td>Components</td><td>" \o components \o "</td></tr>\n" \o
       "    <tr><td>Duration</td><td>" \o duration \o "</td></tr>\n" \o
       "    <tr><td>Saving Throw</td><td>" \o saving_throw \o "</td></tr>\n" \o
       "  </table>\n" \o "  <div style=\"margin-top: 10px;\">" \o
       description \o "</div>\n" \o "  " \o notes_block \o "\n" \o
       "</section>\n"

\* _render_spellbook_header
RenderSpellbookHeader(character) ==
    LET name == HtmlEscape(OrElse(character.name, "Spellbook"))
        character_type ==
            HtmlEscape(OrElse(Either(character.type, character.characterType), ""))
        notes == HtmlEscape(OrElse(character.notes, ""))
        meta == IF character_type # "" THEN character_type \o " Spellbook"
                ELSE "Spellbook"
        notes_block == IF notes # "" THEN "<p class='meta'>" \o notes \o "</p>" ELSE ""
    IN "<h1>" \o name \o "</h1><p class='meta'>" \o meta \o "</p>" \o notes_block

\* _render_print_html, the document as text
PrintHtml(ss, mode, layout, character) ==
    LET title ==
            IF mode = "single" /\ ss # <<>>
            THEN OrElse(ss[1].name, "Spellbook Print")
            ELSE IF mode = "spellbook" THEN OrElse(character.name, "Spellbook Print")
            ELSE "Spellbook Print"
        body_parts ==
            (IF mode = "spellbook" THEN <<RenderSpellbookHeader(character)>> ELSE <<>>)
            \o [i \in 1..Len(ss) |-> RenderSpellBlock(ss[i], layout, mode)]
        body == Join("\n", body_parts)
    IN "<!doctype html>\n" \o "<html lang=\"en\">\n" \o "<head>\n" \o
       "  <meta charset=\"utf-8\" />\n" \o "  <title>" \o HtmlEscape(title) \o
       "</title>\n" \o "  <style>\n" \o "    body {\n" \o
       "      font-family: \"Inter\", \"Segoe UI\", sans-serif;\n" \o
       "      color: #111;\n" \o "      margin: 32px;\n" \o "    }\n" \o
       "    h1, h2, h3 {\n" \o "      margin: 0 0 8px 0;\n" \o "    }\n" \o
       "    .meta {\n" \o "      color: #555;\n" \o
       "      font-size: 12px;\n" \o "      margin-bottom: 12px;\n" \o
       "    }\n" \o "    .spell {\n" \o
       "      border-bottom: 1px solid #ddd;\n" \o
       "      padding: 16px 0;\n" \o "      page-break-inside: avoid;\n" \o
       "    }\n" \o "    .spell:last-child {\n" \o
       "      border-bottom: none;\n" \o "    }\n" \o
       "    .spell-header {\n" \o "      display: flex;\n" \o
       "      justify-content: space-between;\n" \o
       "      align-items: baseline;\n" \o "      gap: 12px;\n" \o "    }\n" \o
       "    .pill {\n" \o "      display: inline-block;\n" \o
       "      background: #f2f2f2;\n" \o "      border-radius: 999px;\n" \o
       "      padding: 2px 8px;\n" \o "      font-size: 11px;\n" \o
       "      margin-right: 6px;\n" \o "    }\n" \o "    .details-table {\n" \o
       "      width: 100%;\n" \o "      border-collapse: collapse;\n" \o
       "      font-size: 12px;\n" \o "    }\n" \o
       "    .details-table td {\n" \o "      padding: 4px 6px;\n" \o
       "      border: 1px solid #e2e2e2;\n" \o "    }\n" \o "    .notes {\n" \o
       "      margin-top: 8px;\n" \o "      font-size: 12px;\n" \o
       "      color: #444;\n" \o "    }\n" \o "  </style>\n" \o "</head>\n" \o
       "    " \o body \o "\n" \o "</body>\n" \o "</html>\n"

\* _render_character_sheet_html, the document as text
CharacterSheetHtml(character) ==
    LET name == HtmlEscape(OrElse(character.name, "Unnamed Character"))
        char_type == HtmlEscape(OrElse(character.characterType, "PC"))
        race == HtmlEscape(OrElse(character.race, "-"))
        alignment == HtmlEscape(OrElse(character.alignment, "-"))
        notes == HtmlEscape(OrElse(character.notes, ""))
        include_com == character.includeCom
        include_notes == character.includeNotes
        abilities == character.abilities
        Ability(x) == IF x.k = "absent" THEN "10" ELSE PyStr(x)
        classes == character.classes
        all_spells == character.characterSpells
        Row(s) ==
            LET s_name == HtmlEscape(OrElse(s.name, "Untitled"))
                s_lvl == OrElse(s.level, "0")
                s_type == IF s.prepared.k = "bool" /\ s.prepared.v = "true"
                          THEN "Prepared" ELSE "Known"
                s_notes == IF include_notes THEN HtmlEscape(OrElse(s.notes, "")) ELSE ""
                notes_cell ==
                    IF s_notes # "" THEN "<br/><small><em>" \o s_notes \o "</em></small>"
                    ELSE ""
            IN "<tr><td>" \o s_name \o notes_cell \o "</td><td>" \o s_lvl
               \o "</td><td>" \o s_type \o "</td></tr>"
        Section(cls) ==
            LET c_name == OrElse(cls.className, "Unknown")
                c_lbl == OrElse(cls.classLabel, c_name)
                c_lvl == OrElse(cls.level, "1")
                InClass(s) == OrElse(s.className, "Other") = c_name
                cls_spells == SelectSeq(all_spells, InClass)
                spell_rows ==
                    Join("", [i \in 1..Len(cls_spells) |-> Row(cls_spells[i])])
                spell_table ==
                    IF cls_spells = <<>> THEN ""
                    ELSE
               "\n" \o "            <table class=\"spell-table\">\n" \o
               "                <thead><tr><th>Spell</th><th>Lvl</th><th>Status</th></tr></thead>\n" \o
               "                <tbody>" \o spell_rows \o "</tbody>\n" \o
               "            </table>\n" \o "            "
            IN
           "\n" \o "        <div class=\"section\">\n" \o "            <h2>" \o
           HtmlEscape(c_lbl) \o " (Level " \o c_lvl \o ")</h2>\n" \o
           "            " \o
           (IF spell_table # "" THEN spell_table ELSE "<p>No spells recorded.</p>") \o
           "\n" \o "        </div>\n" \o "        "
        sections_html == Join("", [i \in 1..Len(classes) |-> Section(classes[i])])
        com_box ==
            IF include_com
            THEN "<div class=\"ability-box\"><div class=\"ability-val\">"
                 \o Ability(abilities.com)
                 \o "</div><div class=\"ability-lbl\">COM</div></div>"
            ELSE ""
        notes_section ==
            IF include_notes /\ notes # ""
            THEN "<div class=\"section\"><h2>Notes</h2><div class=\"notes-box\">"
                 \o notes \o "</div></div>"
            ELSE ""
    IN "<!doctype html>\n" \o "<html lang=\"en\">\n" \o "<head>\n" \o
       "  <meta charset=\"utf-8\" />\n" \o "  <title>" \o name \o
       " - Character Sheet</title>\n" \o "  <style>\n" \o
       "    body { font-family: \"Inter\", -apple-system, sans-serif; color: #111; margin: 40px; line-height: 1.5; }\n" \o
       "    h1 { border-bottom: 2px solid #333; padding-bottom: 8px; margin-top: 0; }\n" \o
       "    h2 { background: #f4f4f4; padding: 6px 12px; margin-top: 24px; font-size: 1.2rem; border-left: 4px solid #333; }\n" \o
       "    .header-grid { display: grid; grid-template-columns: 1fr 1fr 1fr; gap: 16px; margin-bottom: 24px; }\n" \o
       "    .ability-grid { display: grid; grid-template-columns: repeat(auto-fit, minmax(60px, 1fr)); gap: 8px; text-align: center; }\n" \o
       "    .ability-box { border: 1px solid #ccc; padding: 10px 4px; border-radius: 6px; background: #fafafa; }\n" \o
       "    .ability-val { font-size: 20px; font-weight: bold; color: #222; }\n" \o
       "    .ability-lbl { font-size: 11px; text-transform: uppercase; color: #666; font-weight: 600; margin-top: 2px; }\n" \o
       "    .section { margin-bottom: 30px; }\n" \o
       "    .spell-table { width: 100%; border-collapse: collapse; font-size: 13px; margin-top: 10px; }\n" \o
       "    .spell-table th { text-align: left; background: #eee; padding: 6px 8px; border: 1px solid #ddd; }\n" \o
       "    .spell-table td { padding: 6px 8px; border: 1px solid #ddd; vertical-align: top; }\n" \o
       "    .notes-box { border: 1px solid #ddd; padding: 12px; background: #fffcf0; white-space: pre-wrap; margin-top: 10px; font-size: 14px; }\n" \o
       "    @media print {\n" \o "      body { margin: 0; }\n" \o
       "      .section { page-break-inside: avoid; }\n" \o "    }\n" \o
       "  </style>\n" \o "</head>\n" \o "<body>\n" \o "  <h1>" \o name \o
       "</h1>\n" \o "\n" \o "  <div class=\"header-grid\">\n" \o
       "    <div><strong>Type:</strong> " \o char_type \o "</div>\n" \o
       "    <div><strong>Race:</strong> " \o race \o "</div>\n" \o
       "    <div><strong>Alignment:</strong> " \o alignment \o "</div>\n" \o
       "  </div>\n" \o "\n" \o "  <div class=\"section\">\n" \o
       "    <div class=\"ability-grid\">\n" \o
       "      <div class=\"ability-box\"><div class=\"ability-val\">" \o
       Ability(abilities.str) \o
       "</div><div class=\"ability-lbl\">STR</div></div>\n" \o
       "      <div class=\"ability-box\"><div class=\"ability-val\">" \o
       Ability(abilities.dex) \o
       "</div><div class=\"ability-lbl\">DEX</div></div>\n" \o
       "      <div class=\"ability-box\"><div class=\"ability-val\">" \o
       Ability(abilities.con) \o
       "</div><div class=\"ability-lbl\">CON</div></div>\n" \o
       "      <div class=\"ability-box\"><div class=\"ability-val\">" \o
       Ability(abilities.int) \o
       "</div><div class=\"ability-lbl\">INT</div></div>\n" \o
       "      <div class=\"ability-box\"><div class=\"ability-val\">" \o
       Ability(abilities.wis) \o
       "</div><div class=\"ability-lbl\">WIS</div></div>\n" \o
       "      <div class=\"ability-box\"><div class=\"ability-val\">" \o
       Ability(abilities.cha) \o
       "</div><div class=\"ability-lbl\">CHA</div></div>\n" \o "      " \o
       com_box \o "\n" \o "    </div>\n" \o "  </div>\n" \o "\n" \o "  " \o
       sections_html \o "\n" \o "\n" \o "  " \o notes_section \o "\n" \o
       "</body>\n" \o "</html>\n"

\* _render_spellbook_pack_html, the document as text
SpellbookPackHtml(ss, character, class_name, layout) ==
    LET char_name == HtmlEscape(OrElse(character.name, "Character"))
        title == char_name \o "'s Spellbook - "
                 \o HtmlEscape(OrElse(class_name, "General"))
        body == Join("\n", [i \in 1..Len(ss) |->
                               RenderSpellBlock(ss[i], layout, "pack")])
    IN "<!doctype html>\n" \o "<html lang=\"en\">\n" \o "<head>\n" \o
       "  <meta charset=\"utf-8\" />\n" \o "  <title>" \o title \o
       "</title>\n" \o "  <style>\n" \o
       "    body { font-family: \"Inter\", sans-serif; color: #111; margin: 32px; }\n" \o
       "    h1 { margin: 0 0 4px 0; }\n" \o
       "    .subtitle { color: #555; margin-bottom: 24px; font-style: italic; }\n" \o
       "    .spell { border-bottom: 1px solid #ddd; padding: 16px 0; page-break-inside: avoid; }\n" \o
       "    .spell-header { display: flex; justify-content: space-between; align-items: baseline; }\n" \o
       "    .pill { background: #f2f2f2; border-radius: 999px; padding: 2px 8px; font-size: 11px; }\n" \o
       "    .details-table { width: 100%; border-collapse: collapse; font-size: 12px; margin-top: 8px; }\n" \o
       "    .details-table td { padding: 4px 6px; border: 1px solid #e2e2e2; }\n" \o
       "  </style>\n" \o "</head>\n" \o "<body>\n" \o "  <h1>" \o char_name \o
       "'s Spellbook</h1>\n" \o "  <div class=\"subtitle\">Class: " \o
       HtmlEscape(OrElse(class_name, "All")) \o "</div>\n" \o "  " \o body \o
       "\n" \o "</body>\n" \o "</html>\n"

(***************************************************************************)
(* The renderers applied on their own to spells and characters.            *)
(***************************************************************************)
True == [k |-> "bool", v |-> "true"]
False == [k |-> "bool", v |-> "false"]

\* A spell without any field, and one with every canonical field.
BlankSpell ==
    [name |-> Absent, school |-> Absent, level |-> Absent, description |-> Absent,
     class_list |-> Absent, classList |-> Absent, range |-> Absent,
     components |-> Absent, duration |-> Absent, saving_throw |-> Absent,
     savingThrow |-> Absent, prepared |-> Absent, known |-> Absent,
     notes |-> Absent]

FullSpell ==
    [BlankSpell EXCEPT
        !.name = Str("Fire & <Ice>"), !.school = Str("Evocation"),
        !.level = Str("3"), !.description = Str("Burns.\nHurts <all>."),
        !.class_list = Str("Mage, Cleric"), !.range = Str("10 yd"),
        !.components = Str("V, S"), !.duration = Str("1 rd"),
        !.saving_throw = Str("Neg."), !.prepared = True, !.known = False,
        !.notes = Str("Keep 'dry'")]

RenderSpells ==
    {BlankSpell, FullSpell,
     [FullSpell EXCEPT !.class_list = Absent, !.classList = Str("Mage, Cleric")],
     [FullSpell EXCEPT !.saving_throw = Absent, !.savingThrow = Str("Neg.")],
     [FullSpell EXCEPT !.classList = Str("Druid"), !.savingThrow = Str("None")],
     [BlankSpell EXCEPT !.name = Str("Ward"), !.class_list = Null,
                        !.classList = Str("Druid"), !.saving_throw = Str(""),
                        !.savingThrow = Str("1/2"), !.known = True]}

BlankCharacter ==
    [name |-> Absent, type |-> Absent, characterType |-> Absent, race |-> Absent,
     alignment |-> Absent, notes |-> Absent, includeCom |-> FALSE,
     includeNotes |-> TRUE,
     abilities |-> [str |-> Absent, dex |-> Absent, con |-> Absent, int |-> Absent,
                    wis |-> Absent, cha |-> Absent, com |-> Absent],
     classes |-> <<>>, characterSpells |-> <<>>]

Hero ==
    [BlankCharacter EXCEPT
        !.name = Str("Elm <Thorn>"), !.characterType = Str("NPC"),
        !.race = Str("Elf & co"), !.alignment = Str("N"),
        !.notes = Str("Old <scroll>"), !.includeCom = TRUE,
        !.abilities.str = Str("18"), !.abilities.com = Str("9"),
        !.classes = <<[className |-> Str("Mage"), classLabel |-> Str("Mage <ret.>"),
                       level |-> Str("5")],
                      [className |-> Str("Cleric"), classLabel |-> Absent,
                       level |-> Absent]>>,
        !.characterSpells =
            <<[className |-> Str("Mage"), name |-> Str("Ward"), level |-> Str("2"),
               prepared |-> True, notes |-> Str("n&n")],
              [className |-> Str("Mage"), name |-> Absent, level |-> Absent,
               prepared |-> Absent, notes |-> Absent]>>]

\* Characters: none, one with numbers where numbers are expected, and ones
\* whose ability score, class level or spell level is a string with markup.
Characters ==
    {BlankCharacter, Hero,
     [Hero EXCEPT !.type = Str("Lich"), !.includeNotes = FALSE],
     [Hero EXCEPT !.abilities.str = Str("<b>18</b>")],
     [Hero EXCEPT !.classes[1].level = Str("<5>")],
     [Hero EXCEPT !.characterSpells[1].level = Str("<2>")]}

PrintCalls ==
    {[fn |-> "_render_print_html", spells |-> ss, mode |-> m, layout |-> l,
      character |-> c, class_name |-> Absent] :
        ss \in SeqsUpTo(RenderSpells, MaxSpells),
        m \in {"list", "single", "spellbook"}, l \in {"compact", "full"},
        c \in {BlankCharacter, Hero}}

SheetCalls ==
    {[fn |-> "_render_character_sheet_html", spells |-> <<>>,
      mode |-> "character_sheet", layout |-> "compact", character |-> c,
      class_name |-> Absent] : c \in Characters}

PackCalls ==
    {[fn |-> "_render_spellbook_pack_html", spells |-> ss,
      mode |-> "spellbook_pack", layout |-> l, character |-> c,
      class_name |-> n] :
        ss \in SeqsUpTo(RenderSpells, MaxSpells), l \in {"compact", "full"},
        c \in {BlankCharacter, Hero}, n \in {Absent, Str("Mage & Co")}}

\* handle_export up to the document it writes.  The md calls are those of the
\* default/list mode (no record has a null description, on which it raises);
\* the html and pdf calls are of every mode.
ExportCalls ==
    {[fn |-> "handle_export", format |-> "md", spells |-> ss, mode |-> "list",
      layout |-> "compact", character |-> BlankCharacter, class_name |-> Absent] :
        ss \in SeqsUpTo(RenderSpells, MaxSpells)}
    \cup
    {[fn |-> "handle_export", format |-> f, spells |-> ss, mode |-> m,
      layout |-> l, character |-> c, class_name |-> Absent] :
        f \in {"html", "pdf"}, ss \in SeqsUpTo(RenderSpells, MaxSpells),
        m \in {"list", "single", "spellbook", "character_sheet", "spellbook_pack"},
        l \in {"compact", "full"}, c \in {BlankCharacter, Hero}}

\* The text handle_export writes: the list markdown for md, the print page
\* for html whatever the mode, and for pdf the HTML renderer of the mode.
ExportDocument(c) ==
    CASE c.format = "md" -> ListMarkdown(c.spells)
      [] c.format = "html" -> PrintHtml(c.spells, c.mode, c.layout, c.character)
      [] c.format = "pdf" /\ c.mode = "character_sheet" ->
            CharacterSheetHtml(c.character)
      [] c.format = "pdf" /\ c.mode = "spellbook_pack" ->
            SpellbookPackHtml(c.spells, c.character, c.class_name, c.layout)
      [] OTHER -> PrintHtml(c.spells, c.mode, c.layout, c.character)

\* No run of main(): one renderer is about to be applied.
InitRender ==
    /\ pc = "call"
    /\ call \in PrintCalls \cup SheetCalls \cup PackCalls \cup ExportCalls
    /\ ret = Unset
    /\ extract_pdf_text = TRUE
    /\ Document = TRUE
    /\ converter = "absent"
    /\ request = NoRequest
    /\ files = <<>>
    /\ idx = 0
    /\ spells = <<>>
    /\ artifacts = <<>>
    /\ conflicts = <<>>
    /\ outdir = [exists |-> FALSE, files |-> {}]
    /\ result = Unset
    /\ excType = "none"
    /\ excMsg = ""
    /\ response = Unset
    /\ stdout = <<>>

CallRenderPrintHtml ==
    /\ pc = "call"
    /\ call.fn = "_render_print_html"
    /\ ret' = [text |-> PrintHtml(call.spells, call.mode, call.layout, call.character)]
    /\ pc' = "returned"
    /\ UNCHANGED <<extract_pdf_text, Document, converter, call, mainVars>>

CallRenderCharacterSheetHtml ==
    /\ pc = "call"
    /\ call.fn = "_render_character_sheet_html"
    /\ ret' = [text |-> CharacterSheetHtml(call.character)]
    /\ pc' = "returned"
    /\ UNCHANGED <<extract_pdf_text, Document, converter, call, mainVars>>

CallRenderSpellbookPackHtml ==
    /\ pc = "call"
    /\ call.fn = "_render_spellbook_pack_html"
    /\ ret' = [text |-> SpellbookPackHtml(call.spells, call.character,
                                          call.class_name, call.layout)]
    /\ pc' = "returned"
    /\ UNCHANGED <<extract_pdf_text, Document, converter, call, mainVars>>

CallHandleExport ==
    /\ pc = "call"
    /\ call.fn = "handle_export"
    /\ ret' = [text |-> ExportDocument(call)]
    /\ pc' = "returned"
    /\ UNCHANGED <<extract_pdf_text, Document, converter, call, mainVars>>

NextRender ==
    \/ CallHandleExport
    \/ CallRenderPrintHtml
    \/ CallRenderCharacterSheetHtml
    \/ CallRenderSpellbookPackHtml

SpecRender == InitRender /\ [][NextRender]_vars

(***************************************************************************)
(* Properties of handle_import.                                            *)
(***************************************************************************)
IsRequest(method) == request.kind = "object" /\ request.method = Str(method)

\* The handler has been left, by return or by an exception.
HandlerLeft == pc \in {"except", "return", "write", "done"}

\* handle_import returned.
ImportReturned ==
    IsRequest("import") /\ pc \in {"return", "write", "done"} /\ excType = "none"

Positions == 1..Len(request.params.files)

\* The extension of each path, lower-cased.
Extension == [p \in Paths |-> Lower(Suffix(p))]

\* The path is a regular, well-formed document of a kind this build can read.
ValidDocument(p) ==
    /\ PathStr(p) \in DOMAIN Disk
    /\ Disk[PathStr(p)].kind = "file"
    /\ Disk[PathStr(p)].parse = "ok"
    /\ \/ Extension[p] = ".md"
       \/ Extension[p] = ".pdf" /\ extract_pdf_text
       \/ Extension[p] = ".docx" /\ Document

\* How many entries of the list satisfy Test.
Count(list, Test(_)) == Cardinality({i \in 1..Len(list) : Test(list[i])})

\* C1: handle_import returns {spells, artifacts, conflicts} for every list of
\* paths and never lets an exception reach its caller: a failure on one path
\* (existence check, hashing, dispatch, extraction) becomes a conflict for that
\* path and every other path of the batch is still processed.
C1_ImportNeverRaises ==
    (IsRequest("import") /\ HandlerLeft) =>
        /\ excType = "none"
        /\ DOMAIN result = {"spells", "artifacts", "conflicts"}
        /\ Len(result.spells) + Len(result.conflicts) = Len(request.params.files)

\* The batch is one missing path, at position m, and valid documents elsewhere.
OneMissingAt(m) ==
    /\ m \in Positions
    /\ PathStr(request.params.files[m]) \notin DOMAIN Disk
    /\ \A j \in Positions \ {m} : ValidDocument(request.params.files[j])

\* C2: a batch of one missing path, in any position, and N valid supported
\* documents returns exactly N records, N artifacts and the single conflict
\* {path: the missing path, reason: "missing"}.
C2_OneMissingAmongValid ==
    \A m \in Positions :
        (ImportReturned /\ OneMissingAt(m)) =>
            /\ Len(result.spells) = Len(request.params.files) - 1
            /\ Len(result.artifacts) = Len(request.params.files) - 1
            /\ result.conflicts = <<[path |-> request.params.files[m], reason |-> "missing"]>>

\* C2 witness: a returned batch of three with the missing path in the middle.
C2_Witness ==
    /\ ImportReturned
    /\ Len(request.params.files) = 3
    /\ OneMissingAt(2)
    /\ Len(result.spells) = 2

\* The positions among the first n of the input that yield a record.
Yielding(n) == {j \in 1..n : j \in Positions /\ ValidDocument(request.params.files[j])}

\* The list of records is the yielding paths of the first n inputs, in input order.
InInputOrder(records, n) ==
    /\ Len(records) = Cardinality(Yielding(n))
    /\ \A i \in 1..Len(records) :
          \E j \in Yielding(n) :
             /\ Cardinality({k \in Yielding(n) : k < j}) = i - 1
             /\ records[i].source_file = PathStr(request.params.files[j])

\* C3: records come back in input order, and artifacts[i] describes the path
\* of spells[i]; this holds of the lists while the loop runs and of the result.
C3_InputOrder ==
    /\ (IsRequest("import") /\ pc = "import_loop") =>
          /\ InInputOrder(spells, idx - 1)
          /\ Len(artifacts) = Len(spells)
          /\ \A i \in 1..Len(spells) : artifacts[i].path = spells[i].source_file
    /\ ImportReturned =>
          /\ InInputOrder(result.spells, Len(request.params.files))
          /\ Len(result.artifacts) = Len(result.spells)
          /\ \A i \in 1..Len(result.spells) :
                result.artifacts[i].path = result.spells[i].source_file

\* C3 witness: two records of different paths with a conflict between them.
C3_Witness ==
    /\ ImportReturned
    /\ request.params.files = <<"C.Pdf", "gone.md", "a.md">>
    /\ Len(result.spells) = 2
    /\ result.spells[1].source_file = "C.Pdf"
    /\ result.spells[2].source_file = "a.md"

\* The path exists and its lower-cased extension is none of the supported ones.
UnsupportedPath(p) ==
    /\ PathStr(p) \in DOMAIN Disk
    /\ Extension[p] \notin {".md", ".pdf", ".docx"}

\* C4: an existing path with an unsupported extension produces exactly one
\* conflict, reason "unsupported_extension", and neither a record nor an
\* artifact; extensions are matched without regard to case.
C4_UnsupportedExtension ==
    (IsRequest("import") /\ HandlerLeft) =>
        /\ "conflicts" \in DOMAIN result
        /\ \A j \in Positions :
              LET p == request.params.files[j]
                  SamePath(q) == PathStr(q) = PathStr(p)
                  ItsConflict(c) == c.path = PathStr(p)
                  ItsRecord(r) == r.source_file = PathStr(p)
                  ItsArtifact(a) == a.path = PathStr(p)
              IN /\ UnsupportedPath(p) =>
                      /\ Count(result.conflicts, ItsConflict)
                            = Count(request.params.files, SamePath)
                      /\ \A i \in 1..Len(result.conflicts) :
                            ItsConflict(result.conflicts[i]) =>
                               result.conflicts[i].reason = "unsupported_extension"
                      /\ Count(result.spells, ItsRecord) = 0
                      /\ Count(result.artifacts, ItsArtifact) = 0
                 /\ (ValidDocument(p) /\ Suffix(p) = ".Pdf") =>
                      \E i \in 1..Len(result.spells) :
                         /\ ItsRecord(result.spells[i])
                         /\ result.spells[i].source = Str("PDF Import")

\* The path names a document whose text-extraction capability is absent.
NoCapabilityFor(p) ==
    \/ Extension[p] = ".pdf" /\ ~extract_pdf_text
    \/ Extension[p] = ".docx" /\ ~Document

\* C5: with a text-extraction capability absent, every .pdf / .docx path of
\* the batch is a conflict with a "parsing_error: " reason, exactly once,
\* yields no record or artifact, and the .md documents of the batch still
\* yield their records.
C5_CapabilityAbsent ==
    (IsRequest("import") /\ HandlerLeft
        /\ \E j \in Positions : NoCapabilityFor(request.params.files[j])) =>
        /\ "conflicts" \in DOMAIN result
        /\ \A j \in Positions :
              LET p == request.params.files[j]
                  SamePath(q) == PathStr(q) = PathStr(p)
                  ItsConflict(c) ==
                      c.path = PathStr(p) /\ StartsWith(c.reason, "parsing_error: ")
                  ItsRecord(r) == r.source_file = PathStr(p)
                  ItsArtifact(a) == a.path = PathStr(p)
              IN /\ NoCapabilityFor(p) =>
                      /\ Count(result.conflicts, ItsConflict)
                            = Count(request.params.files, SamePath)
                      /\ Count(result.spells, ItsRecord) = 0
                      /\ Count(result.artifacts, ItsArtifact) = 0
                 /\ (ValidDocument(p) /\ Extension[p] = ".md") =>
                      Count(result.spells, ItsRecord)
                         = Count(request.params.files, SamePath)

(***************************************************************************)
(* Properties of handle_export and of main().                              *)
(***************************************************************************)
\* handle_export returned.
ExportReturned ==
    IsRequest("export") /\ pc \in {"return", "write", "done"} /\ excType = "none"

\* The requested format, as the request spells it.
Requested(fmt) == IsRequest("export") /\ request.params.format = Str(fmt)

\* The dot and the extension of a path.
ExtensionOf(path) == SubSeq(path, LastDot(path), Len(path))

\* The path names a file of the export directory.
OnDisk(path) == outdir.exists /\ \E f \in outdir.files : f.path = path

\* C6: format=pdf with the conversion capability unavailable or failing
\* returns format "html", a non-empty "warning" and an existing .html path.
C6_PdfFallbackWarning ==
    (Requested("pdf") /\ HandlerLeft /\ converter \in {"absent", "failing"}) =>
        /\ excType = "none"
        /\ result.format = "html"
        /\ "warning" \in DOMAIN result
        /\ result.warning # ""
        /\ ExtensionOf(result.path) = ".html"
        /\ OnDisk(result.path)

\* C7: format=pdf renders the intermediate HTML and, when the converter is
\* available and succeeds, returns format "pdf"; format "html" is returned
\* only when the converter is absent or fails.
C7_PdfWhenConverterWorks ==
    (Requested("pdf") /\ HandlerLeft) =>
        /\ excType = "none"
        /\ \E f \in outdir.files : ExtensionOf(f.path) = ".html"
        /\ converter = "ok" => result.format = "pdf"
        /\ result.format = "html" => converter \in {"absent", "failing"}

\* The request names a format that is none of md, html, pdf.
UnsupportedRequested ==
    /\ IsRequest("export")
    /\ request.params.format.k = "str"
    /\ request.params.format.v \notin {"", "md", "html", "pdf"}

\* C8: an export whose format is not md, html or pdf raises a ValueError whose
\* message starts with "Unsupported export format"; through main() the caller
\* gets the error envelope with that message and no result.
C8_UnsupportedFormat ==
    UnsupportedRequested =>
        /\ pc # "return"
        /\ result = Unset
        /\ HandlerLeft =>
              /\ excType = "ValueError"
              /\ StartsWith(excMsg, "Unsupported export format")
        /\ pc = "done" =>
              /\ Len(stdout) = 1
              /\ DOMAIN stdout[1] = {"jsonrpc", "id", "error"}
              /\ stdout[1].error.message = excMsg

\* C8 witness: the error envelope of an unsupported format has been written.
C8_Witness ==
    /\ UnsupportedRequested
    /\ request.params.format = Str("exe")
    /\ pc = "done"
    /\ stdout = <<[jsonrpc |-> "2.0", id |-> Null,
                   error |-> [message |-> "Unsupported export format: exe"]]>>

\* The run is one the claim says fails: no or bad input, an unknown method,
\* or an exception out of a handler.
FailedRun ==
    \/ request.kind \in {"eof", "blank", "malformed"}
    \/ request.kind = "object" /\ PyStr(Get(request.method)) \notin Handlers
    \/ excType # "none"

\* C9: every run of main() writes exactly one response: {jsonrpc, id, result}
\* with the request's id on success, {jsonrpc, id: null, error: {message}} on
\* no input, a malformed line, an unknown method or a handler's exception;
\* never both result and error.
C9_OneResponse ==
    /\ pc # "done" => stdout = <<>>
    /\ pc = "done" =>
          /\ Len(stdout) = 1
          /\ stdout[1].jsonrpc = "2.0"
          /\ IF FailedRun
             THEN /\ DOMAIN stdout[1] = {"jsonrpc", "id", "error"}
                  /\ stdout[1].id = Null
                  /\ DOMAIN stdout[1].error = {"message"}
                  /\ stdout[1].error.message = excMsg
             ELSE /\ DOMAIN stdout[1] = {"jsonrpc", "id", "result"}
                  /\ stdout[1].id = Get(request.id)
                  /\ stdout[1].result = result

\* C9 witness: a request with an id whose handler raised got the null-id envelope.
C9_Witness ==
    /\ pc = "done"
    /\ request.id = Str("7")
    /\ IsRequest("import")
    /\ excType = "IsADirectoryError"
    /\ "error" \in DOMAIN stdout[1]

\* The first place at or after from where sub starts a line of text, 0 if none.
FindLine(text, sub, from) ==
    LET at == {i \in from..(Len(text) - Len(sub) + 1) :
                 /\ SubSeq(text, i, i + Len(sub) - 1) = sub
                 /\ (i = 1 \/ Char(text, i - 1) = "\n")}
    IN IF at = {} THEN 0 ELSE CHOOSE i \in at : \A j \in at : i <= j

\* What the claim promises of one record: the heading line of its name, a
\* blank line, and its description text (trimmed), when it has them.
Block(spell) ==
    IF spell.name.k # "str" THEN "# "
    ELSE IF spell.description.k # "str" THEN "# " \o spell.name.v \o "\n"
    ELSE "# " \o spell.name.v \o "\n\n" \o Strip(spell.description.v) \o "\n"

RECURSIVE BlocksInOrder(_, _, _)
BlocksInOrder(text, ss, from) ==
    IF ss = <<>> THEN TRUE
    ELSE LET at == FindLine(text, Block(Head(ss)), from)
         IN at > 0 /\ BlocksInOrder(text, Tail(ss), at + Len(Block(Head(ss))))

\* The request is an md export in the default/list mode.
ListModeMarkdown ==
    /\ IsRequest("export")
    /\ request.params.format \in {Absent, Str("md")}
    /\ request.params.mode = Absent

\* C10: an md export in list mode writes a file holding, for every record in
\* input order, the heading "# <name>" followed by the description text, also
\* for records without a name, without a description or with a null one.
C10_MarkdownListing ==
    (ListModeMarkdown /\ HandlerLeft) =>
        /\ excType = "none"
        /\ result.format = "md"
        /\ \E f \in outdir.files :
              /\ f.path = result.path
              /\ BlocksInOrder(f.content.text, request.params.spells, 1)

(***************************************************************************)
(* Properties of the extractors.                                           *)
(***************************************************************************)
\* An extractor returned a record (no ImportError).
Extracted(fn) == pc = "returned" /\ call.fn = fn /\ ~ret.raised

\* The header line assigns the key: what stands before its first colon.
Assigns(line, key) == StartsWith(line, key \o ":")

\* What the header line assigns to the key.
Assigned(line, key) == Strip(SubSeq(line, Len(key) + 2, Len(line)))

\* The value the closed header of the document gives the key ("" when the
\* header has no line for it): of several lines for one key the last counts.
HeaderValue(key) ==
    LET lines == call.doc.lines
        at == {i \in 1..Len(lines) : Assigns(lines[i], key)}
    IN IF call.doc.header # "closed" \/ at = {} THEN ""
       ELSE Assigned(lines[CHOOSE i \in at : \A j \in at : j <= i], key)

\* The header has explicit name and level entries.
ExplicitNameAndLevel == HeaderValue("name") # "" /\ HeaderValue("level") # ""

\* The text is a decimal integer as it would be printed.
IsIntegerText(v) == \E n \in -99..99 : ToString(n) = v

\* C11 as stated: for a document whose header has explicit name and level
\* entries, the record's name is the header name, its level is the header
\* level taken verbatim, and both confidences are 1.0.
C11_HeaderVerbatim ==
    (Extracted("_spell_from_markdown") /\ ExplicitNameAndLevel) =>
        /\ ret.spell.name = HeaderValue("name")
        /\ ToString(ret.spell.level) = HeaderValue("level")
        /\ ret.spell.confidence.name = 10
        /\ ret.spell.confidence.level = 10

\* C11 amended: for a document whose header has explicit name and level
\* entries, the record's name is the header name and both confidences are
\* 1.0; its level is the header level when that value is an integer (a level
\* word or an unparsable value follows the level rules instead).
C11_HeaderInteger ==
    (Extracted("_spell_from_markdown") /\ ExplicitNameAndLevel) =>
        /\ ret.spell.name = HeaderValue("name")
        /\ IsIntegerText(HeaderValue("level")) =>
               ToString(ret.spell.level) = HeaderValue("level")
        /\ ret.spell.confidence.name = 10
        /\ ret.spell.confidence.level = 10

\* A record extracted from a header with an explicit name and the level 3.
C11_Witness ==
    /\ Extracted("_spell_from_markdown")
    /\ HeaderValue("name") = "Fireball"
    /\ HeaderValue("level") = "3"
    /\ ret.spell.level = 3

\* C12: for a document with no header (no delimiter at its start, or one
\* that is never closed), the name confidence is 0.3 (below 0.5), the level
\* confidence is 0.2 (below 0.3), the confidences of school, source, sphere,
\* class_list, range, components and duration are 0.0, and the description
\* is the whole text.
C12_NoHeader ==
    (Extracted("_spell_from_markdown") /\ call.doc.header # "closed") =>
        LET c == ret.spell.confidence
        IN /\ c.name = 3 /\ c.name < 5
           /\ c.level = 2 /\ c.level < 3
           /\ c.school = 0 /\ c.source = 0 /\ c.sphere = 0 /\ c.class_list = 0
           /\ c.range = 0 /\ c.components = 0 /\ c.duration = 0
           /\ ret.spell.description = call.doc.text

\* A record extracted from a file that is a heading and a paragraph.
C12_Witness ==
    /\ Extracted("_spell_from_markdown")
    /\ call.doc.header = "none"
    /\ call.doc.text = "\n# Wall of Fog\n\nA mist <rises>.\n"
    /\ ret.spell.description = call.doc.text

\* The integer a decimal text denotes.
IntegerOf(v) == CHOOSE n \in -99..99 : ToString(n) = v

\* The header marks the spell a cantrip.
CantripMarker == Lower(HeaderValue("is_cantrip")) \in {"1", "true", "yes"}

\* C13: the level of a header is read from its lower-cased value: "cantrip"
\* is level 0 with the cantrip flag, "quest" is level 8 with the quest flag,
\* "8" with a sphere is level 8 with the quest flag; any other value is
\* parsed as an integer, 0 if it does not parse, and the cantrip flag is then
\* set only for level 0 with an is_cantrip marker of 1, true or yes.
C13_LevelRules ==
    (Extracted("_spell_from_markdown") /\ HeaderValue("level") # "") =>
        LET v == Lower(HeaderValue("level"))
            r == ret.spell
        IN IF v = "cantrip" THEN r.level = 0 /\ r.is_cantrip = 1
           ELSE IF v = "quest" THEN r.level = 8 /\ r.is_quest_spell = 1
           ELSE IF v = "8" /\ HeaderValue("sphere") # ""
           THEN r.level = 8 /\ r.is_quest_spell = 1
           ELSE /\ r.level = IF IsIntegerText(v) THEN IntegerOf(v) ELSE 0
                /\ r.is_cantrip = 1 => (r.level = 0 /\ CantripMarker)

\* A level 0 header with the marker "Yes" gave a cantrip.
C13_Witness ==
    /\ Extracted("_spell_from_markdown")
    /\ HeaderValue("level") = "0"
    /\ HeaderValue("is_cantrip") = "Yes"
    /\ ret.spell.level = 0
    /\ ret.spell.is_cantrip = 1

\* C14: every record an extractor returns has a level that is a
\* non-negative integer, whatever the header level value or extracted text.
C14_LevelNonNegative ==
    (pc = "returned" /\ ~ret.raised) => ret.spell.level \in Nat

\* C15: every record in the spells list handle_import returns has a
\* non-empty name and a non-empty description, whatever the document holds.
C15_NamedAndDescribed ==
    ImportReturned =>
        \A i \in 1..Len(result.spells) :
            result.spells[i].name # "" /\ result.spells[i].description # ""

\* A binary extractor returned a record.
BinaryExtracted == Extracted("_spell_from_pdf") \/ Extracted("_spell_from_docx")

\* The text extracted from the binary document.
BinaryText ==
    IF call.fn = "_spell_from_pdf" THEN call.doc.text
    ELSE Join("\n\n", call.paragraphs)

DigitChars == {"0", "1", "2", "3", "4", "5", "6", "7", "8", "9"}

\* The word level or lvl, in any case, starts at i and is followed, after
\* colons and white space only, by a digit at d.
LevelWordAt(t, i, d) ==
    /\ \E k \in {3, 5} :
          /\ i + k <= d
          /\ Lower(SubSeq(t, i, i + k - 1)) = (IF k = 3 THEN "lvl" ELSE "level")
          /\ \A j \in (i + k)..(d - 1) : Char(t, j) \in {":", " ", "\n", "\t", "\r"}
    /\ d <= Len(t)
    /\ Char(t, d) \in DigitChars

\* The level pattern occurs in the text.
PatternMatched(t) == \E i, d \in 1..Len(t) : LevelWordAt(t, i, d)

\* The number of the first occurrence: the whole run of digits from d on.
FirstNumber(t) ==
    LET i == CHOOSE a \in 1..Len(t) :
                 /\ \E d \in 1..Len(t) : LevelWordAt(t, a, d)
                 /\ \A b \in 1..(a - 1) : \A d \in 1..Len(t) : ~LevelWordAt(t, b, d)
        d == CHOOSE x \in 1..Len(t) : LevelWordAt(t, i, x)
        e == CHOOSE x \in d..Len(t) :
                 /\ \A j \in d..x : Char(t, j) \in DigitChars
                 /\ x = Len(t) \/ Char(t, x + 1) \notin DigitChars
    IN Decimal(SubSeq(t, d, e), 0)

\* C16: a record of a binary document has the confidences name 0.3, school,
\* sphere and class_list 0.0, source 0.5, level 0.6 exactly when the level
\* pattern matched and 0.1 otherwise, description 0.7 when the trimmed text
\* is non-empty and 0.1 otherwise; its level is the number of the first
\* match, or 0 without a match.
C16_BinaryConfidence ==
    BinaryExtracted =>
        LET c == ret.spell.confidence
            t == BinaryText
        IN /\ c.name = 3 /\ c.school = 0 /\ c.sphere = 0 /\ c.class_list = 0
           /\ c.source = 5
           /\ c.level = IF PatternMatched(t) THEN 6 ELSE 1
           /\ c.description = IF Strip(t) # "" THEN 7 ELSE 1
           /\ ret.spell.level = IF PatternMatched(t) THEN FirstNumber(t) ELSE 0

\* A text with two matches: the first one, 12, is the level.
C16_Witness ==
    /\ Extracted("_spell_from_pdf")
    /\ call.doc.text = "lvl 12, later Level 4"
    /\ ret.spell.level = 12
    /\ ret.spell.confidence.level = 6

\* The text of the first level-1 heading line ("# ...") of the body, "" if
\* the body has none.
FirstHeading ==
    LET lines == SplitLines(call.doc.body)
        at == {i \in 1..Len(lines) : StartsWith(lines[i], "# ")}
    IN IF at = {} THEN ""
       ELSE LET first == CHOOSE i \in at : \A j \in at : i <= j
            IN Strip(SubSeq(lines[first], 3, Len(lines[first])))

\* C17: the name of a structured-text record is the explicit header name;
\* without one, the first level-1 heading of the body; without that, the
\* file name with underscores as spaces, title-cased.
C17_NameResolution ==
    (Extracted("_spell_from_markdown") /\ call.path = "magic_missile.md") =>
        ret.spell.name =
            IF HeaderValue("name") # "" THEN HeaderValue("name")
            ELSE IF FirstHeading # "" THEN FirstHeading
            ELSE "Magic Missile"

\* The key of a header line as the normalizer resolves it: trimmed,
\* lower-cased, underscores as spaces, then looked up in the alias table.
Canonical(line) ==
    LET colon == CHOOSE i \in 1..Len(line) :
                     Char(line, i) = ":" /\ \A j \in 1..(i - 1) : Char(line, j) # ":"
        key == Replace(Lower(Strip(SubSeq(line, 1, colon - 1))), "_", " ")
    IN CASE key \in {"name", "title"} -> "name"
         [] key \in {"class list", "classes", "class"} -> "class_list"
         [] key = "material components" -> "material_components"
         [] key \in {"level", "school", "sphere"} -> key
         [] OTHER -> ""

\* What follows the first colon of a header line, trimmed.
ValueOf(line) ==
    LET colon == CHOOSE i \in 1..Len(line) :
                     Char(line, i) = ":" /\ \A j \in 1..(i - 1) : Char(line, j) # ":"
    IN Strip(SubSeq(line, colon + 1, Len(line)))

\* The value the normalized header gives a canonical field: the last line
\* that resolves to the field and has a value; "" if there is none.
Normalized(field) ==
    LET lines == call.doc.lines
        at == {i \in 1..Len(lines) :
                  Canonical(lines[i]) = field /\ ValueOf(lines[i]) # ""}
    IN IF call.doc.header # "closed" \/ at = {} THEN ""
       ELSE ValueOf(lines[CHOOSE i \in at : \A j \in at : j <= i])

\* The field of the record is the normalized header value, None without one.
Populated(value, field) ==
    value = IF Normalized(field) = "" THEN Null ELSE Str(Normalized(field))

\* C18: header keys are normalized (trimmed, lower-cased, underscores as
\* spaces, aliases resolved), so that Name and title give the name, class
\* and classes the class_list, Level the level and "material components"
\* the material_components; a pair with an empty value or an unresolved key
\* is dropped and reaches no canonical field.
C18_KeysNormalized ==
    Extracted("_spell_from_markdown") =>
        LET r == ret.spell
        IN /\ Normalized("name") # "" => r.name = Normalized("name")
           /\ Populated(r.class_list, "class_list")
           /\ Populated(r.material_components, "material_components")
           /\ Populated(r.school, "school")
           /\ Populated(r.sphere, "sphere")
           /\ IsIntegerText(Normalized("level")) =>
                  r.level = IntegerOf(Normalized("level"))

(***************************************************************************)
(* Properties of the renderers.                                            *)
(***************************************************************************)
\* A renderer of spell blocks returned its document.
BlocksRendered ==
    /\ pc = "returned"
    /\ call.fn \in {"_render_print_html", "_render_spellbook_pack_html"}

\* The text holds the piece.
Contains(text, piece) ==
    \E i \in 1..(Len(text) - Len(piece) + 1) :
        SubSeq(text, i, i + Len(piece) - 1) = piece

\* The record that differs from s only in carrying its class_list under
\* classList and its saving_throw under savingThrow instead.
CamelCased(s) ==
    LET t == IF s.class_list.k = "str" /\ s.classList = Absent
             THEN [s EXCEPT !.class_list = Absent, !.classList = s.class_list]
             ELSE s
    IN IF t.saving_throw.k = "str" /\ t.savingThrow = Absent
       THEN [t EXCEPT !.saving_throw = Absent, !.savingThrow = t.saving_throw]
       ELSE t

\* The record with only its class_list moved to classList.
CamelClassList(s) ==
    IF s.class_list.k = "str" /\ s.classList = Absent
    THEN [s EXCEPT !.class_list = Absent, !.classList = s.class_list]
    ELSE s

\* The document the renderer of the call makes of the spells ss.
Rendering(ss) ==
    IF call.fn = "_render_print_html"
    THEN PrintHtml(ss, call.mode, call.layout, call.character)
    ELSE SpellbookPackHtml(ss, call.character, call.class_name, call.layout)

\* C19: a spell field is read under its snake-case name or, when that is
\* absent, under its camelCase name: a record with class_list = X and the
\* record that carries classList = X instead give the same HTML, in the
\* compact and in the full layout; likewise saving_throw and savingThrow.
C19_CamelCaseRendersAlike ==
    BlocksRendered =>
        /\ ret.text = Rendering([i \in 1..Len(call.spells) |->
                                    CamelClassList(call.spells[i])])
        /\ ret.text = Rendering([i \in 1..Len(call.spells) |->
                                    CamelCased(call.spells[i])])

\* A full-layout document of a record with class_list and saving_throw,
\* whose camelCase twin is a different record, shows both values.
C19_Witness ==
    /\ BlocksRendered
    /\ call.layout = "full"
    /\ call.spells = <<FullSpell>>
    /\ CamelCased(FullSpell) # FullSpell
    /\ CamelCased(FullSpell).classList = Str("Mage, Cleric")
    /\ Contains(ret.text, "<tr><td>Classes</td><td>Mage, Cleric</td></tr>")
    /\ Contains(ret.text, "<tr><td>Saving Throw</td><td>Neg.</td></tr>")

\* The text has a character that HTML escapes.
Special(text) == \E i \in 1..Len(text) : Char(text, i) \in {"<", ">", "&"}

\* The lines of the text values among the optional values xs.
LinesOf(xs) ==
    UNION {{SplitLines(x.v)[i] : i \in 1..Len(SplitLines(x.v))} :
              x \in {y \in xs : y.k = "str"}}

\* The values the caller supplied: spell fields, character fields, class
\* labels and levels, ability scores, spell levels and notes, class_name.
Supplied ==
    LET c == call.character
    IN UNION {{s.name, s.school, s.level, s.description, s.class_list,
               s.classList, s.range, s.components, s.duration, s.saving_throw,
               s.savingThrow, s.notes} :
                 s \in {call.spells[i] : i \in 1..Len(call.spells)}}
       \cup {c.name, c.type, c.characterType, c.race, c.alignment, c.notes,
             c.abilities.str, c.abilities.dex, c.abilities.con, c.abilities.int,
             c.abilities.wis, c.abilities.cha, c.abilities.com, call.class_name}
       \cup UNION {{x.classLabel, x.level} :
                      x \in {c.classes[i] : i \in 1..Len(c.classes)}}
       \cup UNION {{x.name, x.level, x.notes} :
                      x \in {c.characterSpells[i] : i \in 1..Len(c.characterSpells)}}

\* A spell with the two-line description is among those rendered.
TwoLines ==
    \E i \in 1..Len(call.spells) :
        call.spells[i].description = Str("Burns.\nHurts <all>.")

\* C20: in every HTML document, of every mode and layout, each value the
\* caller supplied is escaped where it is interpolated: no line of a value
\* with '<', '>' or '&' stands in the document as supplied; the newlines of
\* a description are <br/> in HTML and stay newlines in markdown.
C20_ValuesEscaped ==
    pc = "returned" =>
        LET export == call.fn = "handle_export"
            sheet == \/ call.fn = "_render_character_sheet_html"
                     \/ export /\ call.format = "pdf" /\ call.mode = "character_sheet"
        IN IF export /\ call.format = "md"
           THEN TwoLines => Contains(ret.text, "Burns.\nHurts <all>.")
           ELSE /\ \A piece \in LinesOf(Supplied) :
                       Special(piece) => ~Contains(ret.text, piece)
                /\ (TwoLines /\ ~sheet) =>
                       Contains(ret.text, "Burns.<br/>Hurts &lt;all&gt;.")

(***************************************************************************)
(* Properties of the files and lists the handlers leave behind.            *)
(***************************************************************************)
HexChars == DigitChars \cup {"a", "b", "c", "d", "e", "f"}

\* The text is a non-empty run of hexadecimal digits.
IsHex(text) == text # "" /\ \A i \in 1..Len(text) : Char(text, i) \in HexChars

\* The path is <directory>/spellbook_export_<hex>.<ext>.
ExportName(path, ext) ==
    LET prefix == "out/spellbook_export_"
    IN /\ StartsWith(path, prefix)
       /\ ExtensionOf(path) = "." \o ext
       /\ IsHex(SubSeq(path, Len(prefix) + 1, LastDot(path) - 1))

\* C21: a handle_export call that returns has made the output directory and
\* written exactly one file, named spellbook_export_<hex>.<ext>; the returned
\* path is that file, and its extension is the returned format, whatever the
\* requested format (md, html, pdf) and mode.
C21_OneExportFile ==
    ExportReturned =>
        /\ outdir.exists
        /\ Cardinality(outdir.files) = 1
        /\ \A f \in outdir.files : f.path = result.path
        /\ ExportName(result.path, result.format)

\* C21 witness: a pdf request for a character sheet returned a file whose
\* extension is the returned format html.
C21_Witness ==
    /\ ExportReturned
    /\ Requested("pdf")
    /\ request.params.mode = Str("character_sheet")
    /\ result.format = "html"
    /\ OnDisk(result.path)
    /\ ExtensionOf(result.path) = ".html"

\* The loop of handle_import has been entered.
InImport == IsRequest("import") /\ pc # "import" /\ idx >= 1

\* The lists account for the n paths processed so far.
Accounted(n) ==
    /\ Len(spells) + Len(conflicts) = n
    /\ Len(artifacts) = Len(spells)

\* One list grew by one element at its end, the other stayed as it was.
GrewByOne(before, after) == Len(after) = Len(before) + 1 /\ SubSeq(after, 1, Len(before)) = before

\* One pass of the loop body: the next path, one outcome.
OnePath ==
    /\ idx' = idx + 1
    /\ files' = files
    /\ \/ GrewByOne(spells, spells') /\ conflicts' = conflicts
       \/ GrewByOne(conflicts, conflicts') /\ spells' = spells

\* C22: after any prefix of the input list, and on return, every processed
\* path has gone to exactly one of spells and conflicts: their lengths add up
\* to the number of paths processed, artifacts is as long as spells, and the
\* loop moves to the next path with every outcome (no path twice, none
\* retried).
C22_OneOutcomePerPath ==
    /\ [](InImport => Accounted(idx - 1))
    /\ [](ImportReturned =>
            /\ idx = Len(request.params.files) + 1
            /\ Len(result.spells) + Len(result.conflicts) = Len(request.params.files)
            /\ Len(result.artifacts) = Len(result.spells))
    /\ [][(InImport /\ <<idx, spells, conflicts>>' # <<idx, spells, conflicts>>) => OnePath]_vars

\* C22 witness: an import of three paths returned with a record and two
\* conflicts.
C22_Witness ==
    /\ ImportReturned
    /\ Len(request.params.files) = 3
    /\ Len(result.spells) = 1
    /\ Len(result.artifacts) = 1
    /\ Len(result.conflicts) = 2

(***************************************************************************)
(* Properties of the documents of handle_export.                           *)
(***************************************************************************)
\* handle_export wrote its document for a request of the format.
Exported(fmt) == pc = "returned" /\ call.fn = "handle_export" /\ call.format = fmt

\* C23: for the same spells, mode, layout and character the document of a
\* pdf request is the document of the html request, in every mode, the
\* character sheet and the spellbook pack included.
C23_SameHtmlDocument ==
    Exported("pdf") => ret.text = ExportDocument([call EXCEPT !.format = "html"])

(***************************************************************************)
(* Properties of the flags of a record.                                    *)
(***************************************************************************)
\* C24: in every record _spell_from_markdown returns the flags agree with
\* the level: is_cantrip = 1 only with level 0, is_quest_spell = 1 only with
\* level 8, and never both, whatever the header's level, sphere and
\* is_cantrip entries.
C24_FlagsFollowLevel ==
    Extracted("_spell_from_markdown") =>
        LET r == ret.spell
        IN /\ r.is_cantrip \in {0, 1}
           /\ r.is_quest_spell \in {0, 1}
           /\ r.is_cantrip = 1 => r.level = 0
           /\ r.is_quest_spell = 1 => r.level = 8
           /\ ~(r.is_cantrip = 1 /\ r.is_quest_spell = 1)

\* C24 witness: a header with level 8, a sphere and the cantrip marker gave
\* a quest spell of level 8 that is no cantrip.
C24_Witness ==
    /\ Extracted("_spell_from_markdown")
    /\ HeaderValue("level") = "8"
    /\ HeaderValue("sphere") = "Healing"
    /\ CantripMarker
    /\ ret.spell.level = 8
    /\ ret.spell.is_quest_spell = 1
    /\ ret.spell.is_cantrip = 0

====
